---- MODULE Spec2Model ----
(***************************************************************************)
(* A model of krystal/go-zfs: the property store and its typed accessors   *)
(* (properties.go), the command-argument encoder (propertyMapFlags) and    *)
(* the Manager operations that use it (zfs.go, zpool.go).                  *)
(*                                                                         *)
(* Go strings are modelled as sequences of one-character strings, so that  *)
(* parsing, trimming, joining and byte-wise ordering are computed, not     *)
(* assumed.  uint64 and float64 values are modelled with arbitrary         *)
(* precision naturals ("Big": little-endian sequences of decimal digits,   *)
(* zero being the empty sequence), because the widths that matter here     *)
(* (2^53, 2^64) exceed the integers of the model checker.                  *)
(***************************************************************************)
EXTENDS Integers, Sequences, FiniteSets, TLC

VARIABLES
    call,      \* the call being made: the operation and its arguments
    store,     \* the property store (Properties) a typed accessor is called on
    runner,    \* the invocations the injected command runner has received,
               \* each with the error and the stderr text it answered with
    ret        \* what the call returned, once it has

vars == <<call, store, runner, ret>>

\* No return yet; a Go map without entries.
None == [done |-> FALSE]
EmptyMap == [k \in {} |-> <<>>]

(***************************************************************************)
(* Characters and byte order                                               *)
(***************************************************************************)

\* The printable ASCII characters, in byte order, starting at 0x20.  (The grave
\* accent, byte 0x60, is not used by any input and is held by a placeholder.)
Printable ==
    << " ", "!", "\"", "#", "$", "%", "&", "'", "(", ")", "*", "+", ",", "-", ".", "/",
       "0", "1", "2", "3", "4", "5", "6", "7", "8", "9", ":", ";", "<", "=", ">", "?",
       "@", "A", "B", "C", "D", "E", "F", "G", "H", "I", "J", "K", "L", "M", "N", "O",
       "P", "Q", "R", "S", "T", "U", "V", "W", "X", "Y", "Z", "[", "\\", "]", "^", "_",
       "0x60", "a", "b", "c", "d", "e", "f", "g", "h", "i", "j", "k", "l", "m", "n", "o",
       "p", "q", "r", "s", "t", "u", "v", "w", "x", "y", "z", "{", "|", "}", "~" >>

\* The byte value of a character.
Ord(c) ==
    IF c = "\t" THEN 9
    ELSE IF c = "\n" THEN 10
    ELSE 31 + (CHOOSE i \in 1..Len(Printable) : Printable[i] = c)

IsDigit(c) == Ord(c) >= 48 /\ Ord(c) <= 57
IsUpper(c) == Ord(c) >= 65 /\ Ord(c) <= 90
IsLower(c) == Ord(c) >= 97 /\ Ord(c) <= 122
IsLetter(c) == IsUpper(c) \/ IsLower(c)
IsSpace(c) == c \in {" ", "\t", "\n"}

\* strings.ToLower on one character, and on a string.
LowerChar(c) == IF IsUpper(c) THEN Printable[Ord(c) + 32 - 31] ELSE c
ToLower(s) == [i \in 1..Len(s) |-> LowerChar(s[i])]

\* Go's string comparison (byte-wise lexical order): TRUE iff a < b.
RECURSIVE StrLess(_, _)
StrLess(a, b) ==
    IF b = <<>> THEN FALSE
    ELSE IF a = <<>> THEN TRUE
    ELSE IF Ord(a[1]) # Ord(b[1]) THEN Ord(a[1]) < Ord(b[1])
    ELSE StrLess(Tail(a), Tail(b))

\* strings.TrimSpace.
RECURSIVE TrimLeft(_)
TrimLeft(s) == IF s # <<>> /\ IsSpace(s[1]) THEN TrimLeft(Tail(s)) ELSE s
RECURSIVE TrimRight(_)
TrimRight(s) ==
    IF s # <<>> /\ IsSpace(s[Len(s)]) THEN TrimRight(SubSeq(s, 1, Len(s) - 1)) ELSE s
TrimSpace(s) == TrimRight(TrimLeft(s))

\* strings.TrimSuffix(s, c) for a one-character suffix.
TrimSuffix(s, c) ==
    IF s # <<>> /\ s[Len(s)] = c THEN SubSeq(s, 1, Len(s) - 1) ELSE s

(***************************************************************************)
(* Arbitrary-precision naturals                                            *)
(***************************************************************************)

RECURSIVE BigNorm(_)
BigNorm(a) ==
    IF a # <<>> /\ a[Len(a)] = 0 THEN BigNorm(SubSeq(a, 1, Len(a) - 1)) ELSE a

RECURSIVE BigOfNat(_)
BigOfNat(n) == IF n = 0 THEN <<>> ELSE <<n % 10>> \o BigOfNat(n \div 10)

RECURSIVE BigAddC(_, _, _)
BigAddC(a, b, c) ==
    IF a = <<>> /\ b = <<>> THEN (IF c = 0 THEN <<>> ELSE <<c>>)
    ELSE LET x == IF a = <<>> THEN 0 ELSE a[1]
             y == IF b = <<>> THEN 0 ELSE b[1]
             t == x + y + c
         IN  <<t % 10>> \o BigAddC(IF a = <<>> THEN <<>> ELSE Tail(a),
                                   IF b = <<>> THEN <<>> ELSE Tail(b),
                                   t \div 10)
BigAdd(a, b) == BigAddC(a, b, 0)

\* a * m for a small natural m.
RECURSIVE BigMulC(_, _, _)
BigMulC(a, m, c) ==
    IF a = <<>> THEN BigOfNat(c)
    ELSE LET t == a[1] * m + c
         IN  <<t % 10>> \o BigMulC(Tail(a), m, t \div 10)
BigMulSmall(a, m) == BigNorm(BigMulC(a, m, 0))

\* a < b, for normalised a and b.
RECURSIVE BigLessSameLen(_, _)
BigLessSameLen(a, b) ==
    IF a = <<>> THEN FALSE
    ELSE IF a[Len(a)] # b[Len(b)] THEN a[Len(a)] < b[Len(b)]
    ELSE BigLessSameLen(SubSeq(a, 1, Len(a) - 1), SubSeq(b, 1, Len(b) - 1))
BigLess(a, b) ==
    IF Len(a) # Len(b) THEN Len(a) < Len(b) ELSE BigLessSameLen(a, b)
BigLeq(a, b) == ~BigLess(b, a)

BigOdd(a) == a # <<>> /\ a[1] % 2 = 1

\* a - b, for a >= b.
RECURSIVE BigSubB(_, _, _)
BigSubB(a, b, borrow) ==
    IF a = <<>> THEN <<>>
    ELSE LET y == IF b = <<>> THEN 0 ELSE b[1]
             t == a[1] - y - borrow
         IN  <<(t + 10) % 10>> \o BigSubB(Tail(a), IF b = <<>> THEN <<>> ELSE Tail(b),
                                          IF t < 0 THEN 1 ELSE 0)
BigSub(a, b) == BigNorm(BigSubB(a, b, 0))

\* a div m and a mod m for a small natural m.  The digits are walked from the
\* most significant one.
RECURSIVE BigDivR(_, _, _)
BigDivR(a, m, r) ==
    IF a = <<>> THEN <<>>
    ELSE LET t == r * 10 + a[Len(a)]
         IN  BigDivR(SubSeq(a, 1, Len(a) - 1), m, t % m) \o <<t \div m>>
BigDivSmall(a, m) == BigNorm(BigDivR(a, m, 0))

RECURSIVE BigModR(_, _, _)
BigModR(a, m, r) ==
    IF a = <<>> THEN r
    ELSE BigModR(SubSeq(a, 1, Len(a) - 1), m, (r * 10 + a[Len(a)]) % m)
BigModSmall(a, m) == BigModR(a, m, 0)

\* 2^k as an integer of the model checker, for k up to 16.
TwoTo(k) == <<1, 2, 4, 8, 16, 32, 64, 128, 256, 512, 1024, 2048, 4096, 8192,
              16384, 32768, 65536>>[k + 1]

\* a * 2^k and a div 2^k, sixteen bits at a time.  (The test on the
\* intermediate value makes the model checker compute it before the next
\* step.)
RECURSIVE BigShl(_, _)
BigShl(a, k) ==
    IF k <= 16 THEN BigMulSmall(a, TwoTo(k))
    ELSE LET d == BigMulSmall(a, TwoTo(16))
         IN  IF d = <<>> THEN <<>> ELSE BigShl(d, k - 16)
RECURSIVE BigShr(_, _)
BigShr(a, k) ==
    IF k <= 16 THEN BigDivSmall(a, TwoTo(k))
    ELSE LET h == BigDivSmall(a, TwoTo(16))
         IN  IF h = <<>> THEN <<>> ELSE BigShr(h, k - 16)

Pow2(k) == BigShl(<<1>>, k)

\* a * m^k for a small natural m.
RECURSIVE BigMulPow(_, _, _)
BigMulPow(a, m, k) ==
    IF k = 0 THEN a
    ELSE LET d == BigMulSmall(a, m) IN IF d = <<>> THEN <<>> ELSE BigMulPow(d, m, k - 1)

\* The natural a string of decimal digits denotes ("007" is 7).
RECURSIVE DigitsRev(_)
DigitsRev(s) ==
    IF s = <<>> THEN <<>> ELSE DigitsRev(Tail(s)) \o <<Ord(s[1]) - 48>>
BigOfDigits(s) == BigNorm(DigitsRev(s))

AllDigits(s) == \A i \in 1..Len(s) : IsDigit(s[i])

\* The decimal digits of a natural, most significant first ("0" for zero).
FormatBig(a) ==
    IF a = <<>> THEN <<"0">>
    ELSE [i \in 1..Len(a) |-> Printable[a[Len(a) + 1 - i] + 17]]

(***************************************************************************)
(* float64, as far as sizes need it: a value is sig * 2^exp with a         *)
(* significand below 2^53 (IEEE 754 binary64, round to nearest, ties to    *)
(* even).  Exponent range limits are never met by the inputs modelled.     *)
(***************************************************************************)

Two53 == Pow2(53)
Two64 == Pow2(64)
Two69 == Pow2(69)
MaxUint64 == BigOfDigits(<<"1","8","4","4","6","7","4","4","0","7","3",
                           "7","0","9","5","5","1","6","1","5">>)

\* One representation for each value: an odd significand, or zero.
RECURSIVE FloatCanon(_, _)
FloatCanon(q, e) ==
    IF q = <<>> THEN [sig |-> <<>>, exp |-> 0]
    ELSE IF BigOdd(q) THEN [sig |-> q, exp |-> e]
    ELSE LET k == IF BigModSmall(q, TwoTo(16)) = 0 THEN 16 ELSE 1
             h == BigShr(q, k)
         IN  IF h = <<>> THEN [sig |-> <<>>, exp |-> 0] ELSE FloatCanon(h, e + k)

\* Shift q right until it fits the significand, keeping the last bit shifted
\* out (guard) and whether anything below it was non-zero (sticky); then round.
RECURSIVE RoundShift(_, _, _, _)
RoundShift(q, e, guard, sticky) ==
    IF BigLess(q, Two53)
    THEN IF guard = 1 /\ (sticky \/ BigOdd(q))
         THEN FloatCanon(BigAdd(q, <<1>>), e)
         ELSE FloatCanon(q, e)
    ELSE LET k == IF BigLess(q, Two69) THEN 1 ELSE 16
             h == BigShr(q, k)
             r == BigModSmall(q, TwoTo(k))
             g == IF 2 * r >= TwoTo(k) THEN 1 ELSE 0
             st == sticky \/ guard = 1 \/ (r % TwoTo(k - 1)) # 0
         IN  IF h = <<>> THEN [sig |-> <<>>, exp |-> e]
             ELSE RoundShift(h, e + k, g, st)

\* The digits of a little-endian natural above and below position d.
BigDivPow10(a, d) == IF Len(a) <= d THEN <<>> ELSE SubSeq(a, d + 1, Len(a))
BigModPow10(a, d) == BigNorm(IF Len(a) <= d THEN a ELSE SubSeq(a, 1, d))

\* Scale n up by powers of two until n div 10^d has more than 53 bits.
RECURSIVE ScaleUp(_, _, _)
ScaleUp(n, d, s) ==
    IF ~BigLess(BigDivPow10(n, d), Two53) THEN [n |-> n, s |-> s]
    ELSE LET t == BigShl(n, 16) IN IF t = <<>> THEN [n |-> n, s |-> s]
                                   ELSE ScaleUp(t, d, s + 16)

\* The float64 nearest to n / 10^d (strconv.ParseFloat's result for a decimal
\* literal with integer digits n and d fractional digits).
FloatOfDecimal(n, d) ==
    IF n = <<>> THEN [sig |-> <<>>, exp |-> 0]
    ELSE IF d = 0 THEN RoundShift(n, 0, 0, FALSE)
    ELSE LET sc == ScaleUp(n, d, 0)
         IN  RoundShift(BigDivPow10(sc.n, d), 0 - sc.s, 0, BigModPow10(sc.n, d) # <<>>)

\* f * float64(base^k): the exact product, rounded once.
FloatMulUnit(f, base, k) == RoundShift(BigMulPow(f.sig, base, k), f.exp, 0, FALSE)

\* f >= 2^64 (math.MaxUint64 converted to float64 is 2^64).
FloatGeqTwo64(f) == f.exp >= 0 /\ ~BigLess(BigShl(f.sig, f.exp), Two64)

\* uint64(f) for 0 <= f < 2^64: truncation toward zero.
FloatToUint64(f) ==
    IF f.exp >= 0 THEN BigShl(f.sig, f.exp) ELSE BigShr(f.sig, 0 - f.exp)

(***************************************************************************)
(* github.com/dustin/go-humanize v1.0.0, ParseBytes                        *)
(***************************************************************************)

\* The length of the leading run of digits, '.' and ','.
RECURSIVE NumPrefixLen(_)
NumPrefixLen(s) ==
    IF s # <<>> /\ (IsDigit(s[1]) \/ s[1] = "." \/ s[1] = ",")
    THEN 1 + NumPrefixLen(Tail(s)) ELSE 0

RemoveCommas(s) == SelectSeq(s, LAMBDA c : c # ",")

Count(s, c) == Cardinality({i \in 1..Len(s) : s[i] = c})

\* strconv.ParseFloat on a string of digits and dots: one dot at most and one
\* digit at least.  The value is n / 10^d.
ParseDecimal(num) ==
    IF Count(num, ".") > 1 \/ Count(num, ".") = Len(num)
    THEN [ok |-> FALSE, n |-> <<>>, d |-> 0]
    ELSE LET dot == IF Count(num, ".") = 0 THEN Len(num) + 1
                    ELSE CHOOSE i \in 1..Len(num) : num[i] = "."
         IN  [ok |-> TRUE,
              n  |-> BigOfDigits(SelectSeq(num, LAMBDA c : c # ".")),
              d  |-> Len(num) - dot + (IF dot > Len(num) THEN 1 ELSE 0)]

UnitLetters == <<"k", "m", "g", "t", "p", "e">>

\* bytesSizeTable: the multiplier of a lower-cased unit as [base, k] (base^k),
\* or ok = FALSE for a unit the table does not hold.
BytesSizeTable(extra) ==
    IF extra = <<>> \/ extra = <<"b">> THEN [ok |-> TRUE, base |-> 1024, k |-> 0]
    ELSE IF \E i \in 1..Len(UnitLetters) : extra[1] = UnitLetters[i]
    THEN LET k == CHOOSE i \in 1..Len(UnitLetters) : extra[1] = UnitLetters[i]
             rest == Tail(extra)
         IN  IF rest = <<"i", "b">> \/ rest = <<"i">>
             THEN [ok |-> TRUE, base |-> 1024, k |-> k]
             ELSE IF rest = <<"b">> \/ rest = <<>>
             THEN [ok |-> TRUE, base |-> 1000, k |-> k]
             ELSE [ok |-> FALSE, base |-> 0, k |-> 0]
    ELSE [ok |-> FALSE, base |-> 0, k |-> 0]

ParseBytes(s) ==
    LET lastDigit == NumPrefixLen(s)
        num   == RemoveCommas(SubSeq(s, 1, lastDigit))
        p     == ParseDecimal(num)
        extra == ToLower(TrimSpace(SubSeq(s, lastDigit + 1, Len(s))))
        m     == BytesSizeTable(extra)
        f     == FloatMulUnit(FloatOfDecimal(p.n, p.d), m.base, m.k)
    IN  IF ~p.ok THEN [v |-> <<>>, err |-> TRUE]
        ELSE IF ~m.ok THEN [v |-> <<>>, err |-> TRUE]
        ELSE IF FloatGeqTwo64(f) THEN [v |-> <<>>, err |-> TRUE]
        ELSE [v |-> FloatToUint64(f), err |-> FALSE]

(***************************************************************************)
(* strconv: ParseUint, ParseInt and ParseFloat                             *)
(***************************************************************************)

\* strconv.ParseUint(s, 10, 64): digits only, one at least, at most 2^64 - 1.
\* A variant of ParseUint that wraps around at 2^64 instead of failing.
ParseUintWrapping(s) ==
    IF s = <<>> \/ ~AllDigits(s) THEN [v |-> <<>>, err |-> TRUE]
    ELSE LET n == BigOfDigits(s)
         IN  [v |-> IF BigLess(MaxUint64, n) THEN BigSub(n, Two64) ELSE n,
              err |-> FALSE]

ParseUint(s) ==
    IF s = <<>> \/ ~AllDigits(s) THEN [v |-> <<>>, err |-> TRUE]
    ELSE LET n == BigOfDigits(s)
         IN  IF BigLess(MaxUint64, n) THEN [v |-> <<>>, err |-> TRUE]
             ELSE [v |-> n, err |-> FALSE]

\* strconv.ParseInt(s, 10, 64): an optional sign, then digits; the value lies
\* in -2^63 .. 2^63 - 1.
ParseInt(s) ==
    LET signed == s # <<>> /\ (s[1] = "+" \/ s[1] = "-")
        neg    == s # <<>> /\ s[1] = "-"
        digits == IF signed THEN Tail(s) ELSE s
        n      == BigOfDigits(digits)
    IN  IF digits = <<>> \/ ~AllDigits(digits) THEN [neg |-> FALSE, v |-> <<>>, err |-> TRUE]
        ELSE IF neg /\ BigLess(Pow2(63), n) THEN [neg |-> FALSE, v |-> <<>>, err |-> TRUE]
        ELSE IF ~neg /\ ~BigLess(n, Pow2(63)) THEN [neg |-> FALSE, v |-> <<>>, err |-> TRUE]
        ELSE [neg |-> neg /\ n # <<>>, v |-> n, err |-> FALSE]

FloatZero == [kind |-> "finite", neg |-> FALSE, sig |-> <<>>, exp |-> 0]

IndexOf(s, cs) == IF \E i \in 1..Len(s) : s[i] \in cs
                  THEN CHOOSE i \in 1..Len(s) : s[i] \in cs /\ \A j \in 1..(i - 1) : s[j] \notin cs
                  ELSE 0

\* A natural of at most two decimal digits.
SmallNat(s) == IF Len(s) = 1 THEN Ord(s[1]) - 48 ELSE 10 * (Ord(s[1]) - 48) + (Ord(s[2]) - 48)

\* strconv.ParseFloat(s, 64) on the decimal forms
\*     [+-] digits [. digits] [ (e|E) [+-] digits ]      and  inf, infinity, nan.
\* Hexadecimal literals and exponents of more than two digits are not
\* modelled (no input holds one); they are reported as errors.
ParseFloat(s) ==
    LET signed == s # <<>> /\ (s[1] = "+" \/ s[1] = "-")
        neg    == s # <<>> /\ s[1] = "-"
        body   == IF signed THEN Tail(s) ELSE s
        low    == ToLower(body)
        ePos   == IndexOf(body, {"e", "E"})
        mant   == IF ePos = 0 THEN body ELSE SubSeq(body, 1, ePos - 1)
        expo   == IF ePos = 0 THEN <<>> ELSE SubSeq(body, ePos + 1, Len(body))
        eSign  == expo # <<>> /\ (expo[1] = "+" \/ expo[1] = "-")
        eNeg   == expo # <<>> /\ expo[1] = "-"
        eDig   == IF eSign THEN Tail(expo) ELSE expo
        m      == ParseDecimal(mant)
        e10    == IF ePos = 0 THEN 0 ELSE SmallNat(eDig)
        f      == IF eNeg \/ ePos = 0
                  THEN FloatOfDecimal(m.n, m.d + e10)
                  ELSE IF e10 >= m.d
                  THEN FloatOfDecimal(BigMulPow(m.n, 10, e10 - m.d), 0)
                  ELSE FloatOfDecimal(m.n, m.d - e10)
        bad    == [v |-> FloatZero, err |-> TRUE]
    IN  IF low = <<"i", "n", "f">> \/ low = <<"i", "n", "f", "i", "n", "i", "t", "y">>
        THEN [v |-> [kind |-> "inf", neg |-> neg, sig |-> <<>>, exp |-> 0], err |-> FALSE]
        ELSE IF ~signed /\ low = <<"n", "a", "n">>
        THEN [v |-> [kind |-> "nan", neg |-> FALSE, sig |-> <<>>, exp |-> 0], err |-> FALSE]
        ELSE IF mant = <<>> \/ \E i \in 1..Len(mant) : ~(IsDigit(mant[i]) \/ mant[i] = ".")
        THEN bad
        ELSE IF ~m.ok THEN bad
        ELSE IF ePos # 0 /\ (eDig = <<>> \/ ~AllDigits(eDig) \/ Len(eDig) > 2) THEN bad
        ELSE [v |-> [kind |-> "finite", neg |-> neg, sig |-> f.sig, exp |-> f.exp],
              err |-> FALSE]

(***************************************************************************)
(* time: Unix and Parse with the layout "Mon Jan _2 15:04 2006".  An       *)
(* instant is its count of seconds from 1970-01-01T00:00:00Z, as a sign    *)
(* and a magnitude, with the location it is presented in.                  *)
(***************************************************************************)

\* Seconds from 0000-01-01 to 1970-01-01 (719528 days).
EpochOffset == BigMulSmall(BigOfNat(719528), 86400)

\* time.Time{}: 0001-01-01T00:00:00Z.
ZeroTime ==
    [neg |-> TRUE, sec |-> BigMulSmall(BigOfNat(719162), 86400), loc |-> "UTC"]

\* time.Unix(v, 0): the instant v seconds from the epoch, in the local zone.
Unix(v) == [neg |-> v.neg, sec |-> v.v, loc |-> "Local"]

\* Time.UTC: the same instant, in UTC.
UTC(t) == [t EXCEPT !.loc = "UTC"]

shortDayNames ==
    << <<"s","u","n">>, <<"m","o","n">>, <<"t","u","e">>, <<"w","e","d">>,
       <<"t","h","u">>, <<"f","r","i">>, <<"s","a","t">> >>
shortMonthNames ==
    << <<"j","a","n">>, <<"f","e","b">>, <<"m","a","r">>, <<"a","p","r">>,
       <<"m","a","y">>, <<"j","u","n">>, <<"j","u","l">>, <<"a","u","g">>,
       <<"s","e","p">>, <<"o","c","t">>, <<"n","o","v">>, <<"d","e","c">> >>

\* lookup: the index of the name the value starts with, letter case aside;
\* 0 when there is none.
Lookup(tab, value) ==
    IF Len(value) >= 3 /\ \E i \in 1..Len(tab) : ToLower(SubSeq(value, 1, 3)) = tab[i]
    THEN CHOOSE i \in 1..Len(tab) : ToLower(SubSeq(value, 1, 3)) = tab[i]
    ELSE 0

RECURSIVE CutSpace(_)
CutSpace(s) == IF s # <<>> /\ s[1] = " " THEN CutSpace(Tail(s)) ELSE s

\* skip, for the layout's single space: a run of spaces in the value.
SkipSpace(value) ==
    IF value # <<>> /\ value[1] # " " THEN [ok |-> FALSE, rest |-> value]
    ELSE [ok |-> TRUE, rest |-> CutSpace(value)]

\* getnum: one or two digits, or exactly two when fixed.
GetNum(value, fixed) ==
    IF value = <<>> \/ ~IsDigit(value[1]) THEN [ok |-> FALSE, n |-> 0, rest |-> value]
    ELSE IF Len(value) < 2 \/ ~IsDigit(value[2])
    THEN IF fixed THEN [ok |-> FALSE, n |-> 0, rest |-> value]
         ELSE [ok |-> TRUE, n |-> Ord(value[1]) - 48, rest |-> Tail(value)]
    ELSE [ok |-> TRUE, n |-> SmallNat(SubSeq(value, 1, 2)),
          rest |-> SubSeq(value, 3, Len(value))]

IsLeap(y) == y % 4 = 0 /\ (y % 100 # 0 \/ y % 400 = 0)

DaysBefore == <<0, 31, 59, 90, 120, 151, 181, 212, 243, 273, 304, 334>>

daysIn(m, y) ==
    IF m = 2 THEN (IF IsLeap(y) THEN 29 ELSE 28)
    ELSE IF m \in {4, 6, 9, 11} THEN 30 ELSE 31

\* Days from 0000-01-01 to the given date of the proleptic Gregorian calendar.
DaysFromYearZero(y, m, d) ==
    365 * y
    + (IF y = 0 THEN 0 ELSE ((y - 1) \div 4) - ((y - 1) \div 100) + ((y - 1) \div 400) + 1)
    + DaysBefore[m] + (IF m > 2 /\ IsLeap(y) THEN 1 ELSE 0)
    + (d - 1)

\* time.Date(y, m, d, hh, mm, 0, 0, time.UTC)
DateUTC(y, m, d, hh, mm) ==
    LET s0 == BigAdd(BigMulSmall(BigOfNat(DaysFromYearZero(y, m, d)), 86400),
                     BigOfNat(hh * 3600 + mm * 60))
    IN  IF BigLess(s0, EpochOffset)
        THEN [neg |-> TRUE, sec |-> BigSub(EpochOffset, s0), loc |-> "UTC"]
        ELSE [neg |-> FALSE, sec |-> BigSub(s0, EpochOffset), loc |-> "UTC"]

\* time.Parse("Mon Jan _2 15:04 2006", value)
TimeParse(value) ==
    LET wd    == Lookup(shortDayNames, value)
        v1    == SkipSpace(SubSeq(value, 4, Len(value)))
        mon   == Lookup(shortMonthNames, v1.rest)
        v2    == SkipSpace(SubSeq(v1.rest, 4, Len(v1.rest)))
        day   == GetNum(v2.rest, FALSE)
        v3    == SkipSpace(day.rest)
        hour  == GetNum(v3.rest, FALSE)
        colon == hour.rest # <<>> /\ hour.rest[1] = ":"
        min   == GetNum(Tail(hour.rest), TRUE)
        v4    == SkipSpace(min.rest)
        yr    == v4.rest
        year  == 1000 * (Ord(yr[1]) - 48) + 100 * (Ord(yr[2]) - 48)
                 + 10 * (Ord(yr[3]) - 48) + (Ord(yr[4]) - 48)
        bad   == [t |-> ZeroTime, err |-> TRUE]
    IN  IF wd = 0 \/ ~v1.ok THEN bad
        ELSE IF mon = 0 \/ ~v2.ok THEN bad
        ELSE IF ~day.ok \/ ~v3.ok THEN bad
        ELSE IF ~hour.ok \/ hour.n >= 24 \/ ~colon THEN bad
        ELSE IF ~min.ok \/ min.n >= 60 \/ ~v4.ok THEN bad
        ELSE IF Len(yr) # 4 \/ ~AllDigits(yr) THEN bad
        ELSE IF day.n < 1 \/ day.n > daysIn(mon, year) THEN bad
        ELSE [t |-> DateUTC(year, mon, day.n, hour.n, min.n), err |-> FALSE]

(***************************************************************************)
(* properties.go: the codecs                                               *)
(***************************************************************************)

\* zfsIECSizeRegexp, ^([0-9]+)\s*([a-zA-Z])$ : digits, optional white space,
\* one letter.
MatchIECSize(s) ==
    /\ Len(s) >= 2
    /\ IsLetter(s[Len(s)])
    /\ \E n \in 1..(Len(s) - 1) :
          /\ \A i \in 1..n : IsDigit(s[i])
          /\ \A i \in (n + 1)..(Len(s) - 1) : IsSpace(s[i])

parseSize(size) ==
    LET s == TrimSpace(size)
    IN  ParseBytes(IF MatchIECSize(s) THEN s \o <<"i", "B">> ELSE s)


\* A variant of parseBool that compares without regard to letter case.
parseBoolFoldCase(str) ==
    ToLower(str) = <<"o", "n">> \/ ToLower(str) = <<"e", "n", "a", "b", "l", "e", "d">>

parseBool(str) ==
    str \in { <<"o", "n">>, <<"O", "n">>, <<"O", "N">>,
              <<"e", "n", "a", "b", "l", "e", "d">>,
              <<"E", "n", "a", "b", "l", "e", "d">>,
              <<"E", "N", "A", "B", "L", "E", "D">> }

\* A variant of parseTime that leaves an epoch value in the local zone.
parseTimeEpochLocal(str) ==
    LET s == TrimSpace(str)
        v == ParseInt(s)
        parsed == TimeParse(s)
    IN  IF ~v.err THEN [t |-> Unix(v), err |-> FALSE]
        ELSE [t |-> UTC(parsed.t), err |-> parsed.err]

parseTime(str) ==
    LET s == TrimSpace(str)
        v == ParseInt(s)
        parsed == TimeParse(s)
    IN  IF ~v.err THEN [t |-> UTC(Unix(v)), err |-> FALSE]
        ELSE [t |-> UTC(parsed.t), err |-> parsed.err]

(***************************************************************************)
(* properties.go: the command-argument encoder                             *)
(***************************************************************************)

\* fmt.Sprintf("%s=%s", key, prop)
NameValue(key, prop) == key \o <<"=">> \o prop

\* sort.Strings: ascending byte-wise order (insertion into a sorted list).
RECURSIVE InsertSorted(_, _)
InsertSorted(x, sorted) ==
    IF sorted = <<>> THEN <<x>>
    ELSE IF StrLess(sorted[1], x) THEN <<sorted[1]>> \o InsertSorted(x, Tail(sorted))
    ELSE <<x>> \o sorted
\* A variant of SortStrings that leaves the list as the map loop built it.
SortStringsOmitted(ss) == ss

RECURSIVE SortStrings(_)
SortStrings(ss) ==
    IF ss = <<>> THEN <<>> ELSE InsertSorted(ss[1], SortStrings(Tail(ss)))

\* The orders in which a range loop may visit the keys of a Go map.
IterationOrders(m) ==
    LET n == Cardinality(DOMAIN m)
    IN  {o \in [1..n -> DOMAIN m] : \A i, j \in 1..n : o[i] = o[j] => i = j}

\* A variant of FlagPairs that emits no token for an empty flag.
FlagPairsSkipEmptyFlag(flag, props) ==
    IF flag = <<>> THEN props
    ELSE [i \in 1..(2 * Len(props)) |-> IF i % 2 = 1 THEN flag ELSE props[i \div 2]]

RECURSIVE FlagPairs(_, _)
FlagPairs(flag, props) ==
    IF props = <<>> THEN <<>>
    ELSE <<flag, props[1]>> \o FlagPairs(flag, Tail(props))

\* propertyMapFlags, with the map visited in the given order.  The function
\* has no failure path: the error result its callers in zpool.go read is
\* always nil.
propertyMapFlags(flag, properties, order) ==
    LET props == [i \in 1..Len(order) |-> NameValue(order[i], properties[order[i]])]
    IN  FlagPairs(flag, SortStrings(props))

(***************************************************************************)
(* properties.go: the property-map builder and the typed accessors         *)
(***************************************************************************)

\* A variant of the builder's test that accepts any record of four fields.
AcceptedAnyName(record) == Len(record) = 4

\* The test newProperties makes of a record.
Accepted(record) == Len(record) = 4 /\ record[1] # <<>>

PropertyOf(record) ==
    [Name |-> record[1], Property |-> record[2],
     Value |-> record[3], Source |-> record[4]]

\* A variant of the builder's assignment that keeps an entry already there.
PutFirstWins(props, property, prop) ==
    IF property \in DOMAIN props THEN props
    ELSE [k \in DOMAIN props \cup {property} |-> IF k = property THEN prop ELSE props[k]]

\* m[property] = prop on a Go map.
Put(props, property, prop) ==
    [k \in DOMAIN props \cup {property} |-> IF k = property THEN prop ELSE props[k]]

\* A variant of the loop body that makes a new store for the entity at every
\* record.
PutRecordNewStore(r, record) ==
    Put(r, record[1], Put(EmptyMap, record[2], PropertyOf(record)))

\* The body of the builder's loop for an accepted record.
PutRecord(r, record) ==
    LET entity == IF record[1] \in DOMAIN r THEN r[record[1]] ELSE EmptyMap
    IN  Put(r, record[1], Put(entity, record[2], PropertyOf(record)))

RECURSIVE newPropertiesFrom(_, _)
newPropertiesFrom(r, recs) ==
    IF recs = <<>> THEN r
    ELSE IF Accepted(recs[1]) THEN newPropertiesFrom(PutRecord(r, recs[1]), Tail(recs))
    ELSE newPropertiesFrom(r, Tail(recs))

newProperties(recs) == newPropertiesFrom(EmptyMap, recs)

\* A variant of Present that does not know the "-" sentinel.
PresentAnyValue(p, property) == property \in DOMAIN p

\* prop, ok := p[property]; ok && prop.Value != "-"
Present(p, property) == property \in DOMAIN p /\ p[property].Value # <<"-">>

\* A variant of NonEmpty that lets the empty value through.
NonEmptyOmitted(p, property) == TRUE

\* prop.Value != ""
NonEmpty(p, property) == p[property].Value # <<>>

String(p, property) ==
    IF Present(p, property) THEN [v |-> p[property].Value, ok |-> TRUE]
    ELSE [v |-> <<>>, ok |-> FALSE]

Bytes(p, property) ==
    IF Present(p, property) /\ ~parseSize(p[property].Value).err
    THEN [v |-> parseSize(p[property].Value).v, ok |-> TRUE]
    ELSE [v |-> <<>>, ok |-> FALSE]

\* A variant of Percent that does not look at the parse error.
PercentErrorIgnored(p, property) ==
    IF Present(p, property)
    THEN [v |-> ParseUint(TrimSuffix(p[property].Value, "%")).v, ok |-> TRUE]
    ELSE [v |-> <<>>, ok |-> FALSE]

Percent(p, property) ==
    IF Present(p, property) /\ ~ParseUint(TrimSuffix(p[property].Value, "%")).err
    THEN [v |-> ParseUint(TrimSuffix(p[property].Value, "%")).v, ok |-> TRUE]
    ELSE [v |-> <<>>, ok |-> FALSE]

Ratio(p, property) ==
    IF Present(p, property) /\ ~ParseFloat(TrimSuffix(p[property].Value, "x")).err
    THEN [v |-> ParseFloat(TrimSuffix(p[property].Value, "x")).v, ok |-> TRUE]
    ELSE [v |-> FloatZero, ok |-> FALSE]

Bool(p, property) ==
    IF Present(p, property) /\ NonEmpty(p, property)
    THEN [v |-> parseBool(p[property].Value), ok |-> TRUE]
    ELSE [v |-> FALSE, ok |-> FALSE]

Time(p, property) ==
    IF Present(p, property) /\ NonEmpty(p, property) /\ ~parseTime(p[property].Value).err
    THEN [v |-> parseTime(p[property].Value).t, ok |-> TRUE]
    ELSE [v |-> ZeroTime, ok |-> FALSE]

Uint64(p, property) ==
    IF Present(p, property) /\ NonEmpty(p, property) /\ ~ParseUint(p[property].Value).err
    THEN [v |-> ParseUint(p[property].Value).v, ok |-> TRUE]
    ELSE [v |-> <<>>, ok |-> FALSE]

(***************************************************************************)
(* dataset.go, pool.go: the entities                                       *)
(***************************************************************************)

HasPrefix(s, prefix) ==
    Len(s) >= Len(prefix) /\ SubSeq(s, 1, Len(prefix)) = prefix

\* A variant of CopyNamed that keeps what belongs to the name or below it.
RECURSIVE CopyPrefixed(_, _, _, _)
CopyPrefixed(props, name, properties, order) ==
    IF order = <<>> THEN props
    ELSE LET prop == properties[order[1]]
         IN  CopyPrefixed(IF HasPrefix(prop.Name, name)
                          THEN Put(props, prop.Property, prop) ELSE props,
                          name, properties, Tail(order))

\* The loop of NewDataset and of newPool, visiting the keys in some order:
\* if prop.Name == name { props[prop.Property] = prop }
RECURSIVE CopyNamed(_, _, _, _)
CopyNamed(props, name, properties, order) ==
    IF order = <<>> THEN props
    ELSE LET prop == properties[order[1]]
         IN  CopyNamed(IF prop.Name = name
                       THEN Put(props, prop.Property, prop) ELSE props,
                       name, properties, Tail(order))

\* A variant of NewDataset that matches names by prefix.
NewDatasetByPrefix(name, properties, order) ==
    [Name |-> name, Properties |-> CopyPrefixed(EmptyMap, name, properties, order),
     shared |-> FALSE]

\* The map of the entity is one made by the call (props := Properties{}), not
\* the map the call was given: shared tells which.
NewDataset(name, properties, order) ==
    [Name |-> name, Properties |-> CopyNamed(EmptyMap, name, properties, order),
     shared |-> FALSE]

\* A variant of newPool that keeps the map it was given when all of it
\* belongs to the pool.
newPoolSharing(name, properties, order) ==
    IF \A k \in DOMAIN properties :
          properties[k].Name = name /\ properties[k].Property = k
    THEN [Name |-> name, Properties |-> properties, shared |-> TRUE]
    ELSE [Name |-> name, Properties |-> CopyNamed(EmptyMap, name, properties, order),
          shared |-> FALSE]

newPool(name, properties, order) ==
    [Name |-> name, Properties |-> CopyNamed(EmptyMap, name, properties, order),
     shared |-> FALSE]

\* zfsprops.Mountpoint
sMountpoint == <<"m", "o", "u", "n", "t", "p", "o", "i", "n", "t">>

sNone == <<"n", "o", "n", "e">>

\* A variant of Mountpoint that reports "none" as absent.
MountpointNoneAbsent(d) ==
    LET r == String(d.Properties, sMountpoint)
    IN  IF r.v = sNone THEN [v |-> <<>>, ok |-> FALSE] ELSE r

Mountpoint(d) ==
    LET r == String(d.Properties, sMountpoint)
    IN  [v |-> IF r.v = sNone THEN <<>> ELSE r.v, ok |-> r.ok]

(***************************************************************************)
(* manager.go, zfs.go, zpool.go: errors and the runner                     *)
(***************************************************************************)

\* An error value is modelled by the set of targets errors.Is matches it to.
NoError == [is |-> {}]
errInvalidDatasetName     == [is |-> {"Err", "ErrZFS", "ErrInvalidName"}]
errInvalidDatasetProperty == [is |-> {"Err", "ErrZFS", "ErrInvalidProperty"}]
errInvalidPoolName        == [is |-> {"Err", "ErrZpool", "ErrInvalidName"}]
errInvalidPoolProperty    == [is |-> {"Err", "ErrZpool", "ErrInvalidProperty"}]
errInvalidCreatePoolOptions == [is |-> {"Err", "ErrZpool", "ErrInvalidCreateOptions"}]

\* bytes.Split and strings.Split on a one-byte separator: the pieces between
\* the separators, one more than there are separators.
RECURSIVE Split(_, _)
Split(s, sep) ==
    LET i == IndexOf(s, {sep})
    IN  IF i = 0 THEN <<s>>
        ELSE <<SubSeq(s, 1, i - 1)>> \o Split(SubSeq(s, i + 1, Len(s)), sep)

\* A variant of parseTabular that passes over empty lines.
parseTabularSkipEmpty(data) ==
    LET lines == SelectSeq(Split(data, "\n"), LAMBDA line : line # <<>>)
    IN  [i \in 1..Len(lines) |-> Split(lines[i], "\t")]

\* A variant of parseTabular that drops the line feeds at the end first.
parseTabularTrimmed(data) ==
    LET lines == Split(TrimRight(data), "\n")
    IN  [i \in 1..Len(lines) |-> Split(lines[i], "\t")]

parseTabular(data) ==
    LET lines == Split(data, "\n")
    IN  [i \in 1..Len(lines) |-> Split(lines[i], "\t")]

\* bytes.Index: the first position at which sub occurs in s, 0 when it does
\* not occur.
IndexBytes(s, sub) ==
    LET at == {i \in 1..(Len(s) - Len(sub) + 1) : SubSeq(s, i, i + Len(sub) - 1) = sub}
    IN  IF at = {} THEN 0 ELSE CHOOSE i \in at : \A j \in at : i <= j

\* bytes.Join
RECURSIVE JoinBytes(_, _)
JoinBytes(parts, sep) ==
    IF parts = <<>> THEN <<>>
    ELSE IF Len(parts) = 1 THEN parts[1]
    ELSE parts[1] \o sep \o JoinBytes(Tail(parts), sep)

cleanUpStderr(stderr) ==
    LET i == IndexBytes(stderr, <<"\n", "u", "s", "a", "g", "e", ":", "\n">>)
        cut == IF i # 0 THEN SubSeq(stderr, 1, i - 1) ELSE stderr
        lines == Split(TrimSpace(cut), "\n")
        trimmed == [k \in 1..Len(lines) |-> TrimSpace(lines[k])]
    IN  JoinBytes(SelectSeq(trimmed, LAMBDA v : Len(v) > 0), <<":", " ">>)

\* What commands may write to stdout.
Stdouts ==
    { <<>>, <<"o", "n", "\n">>, <<"x">>,
      <<"t", "/", "a", "\t", "p", "\t", "x", "\t", "-", "\n">>,
      <<"t", "/", "a", "\t", "p", "\t", "x", "\t", "-", "\n", "t", "/", "a",
      "\t", "q", "\t", "y", "\t", "l", "o", "c", "a", "l", "\n">>,
      <<"t", "/", "a", "/", "s", "u", "b", "\t", "p", "\t", "x", "\t", "-",
      "\n">>,
      <<"t", "/", "a", "\t", "p", "\t", "x", "\t", "-", "\n", "t", "/", "a",
      "/", "s", "u", "b", "\t", "p", "\t", "z", "\t", "-", "\n">>,
      <<"t", "\t", "p", "\t", "x", "\t", "-", "\n">>,
      <<"t", "\t", "p", "\t", "x", "\t", "-", "\n", "t", "2", "\t", "p",
      "\t", "z", "\t", "-", "\n">>,
      <<"t", "\t", "p", "\t", "x", "\t", "-", "\n", "\t", "p", "\t", "y",
      "\t", "-", "\n", "t", "2", "\t", "p", "\t", "z", "\t", "-", "\n", "t",
      "\t", "p", "\t", "w", "\t", "-", "\n", "t", "\t", "q", "\t", "v",
      "\n">> }

\* What commands may write to stderr when they fail.
Stderrs ==
    { <<>>,
      <<"c", "a", "n", "n", "o", "t", " ", "o", "p", "e", "n", " ", "'", "t",
      "/", "b", "'", ":", " ", "d", "a", "t", "a", "s", "e", "t", " ", "d",
      "o", "e", "s", " ", "n", "o", "t", " ", "e", "x", "i", "s", "t",
      "\n">>,
      <<"c", "a", "n", "n", "o", "t", " ", "o", "p", "e", "n", " ", "'", "t",
      "'", ":", " ", "p", "e", "r", "m", "i", "s", "s", "i", "o", "n", " ",
      "d", "e", "n", "i", "e", "d", "\n">>,
      <<"i", "n", "v", "a", "l", "i", "d", " ", "o", "p", "t", "i", "o", "n",
      " ", "'", "x", "'", "\n", "u", "s", "a", "g", "e", ":", "\n", "\t",
      "d", "e", "s", "t", "r", "o", "y", " ", "[", "-", "f", "n", "p", "R",
      "r", "v", "]", " ", "<", "f", "i", "l", "e", "s", "y", "s", "t", "e",
      "m", "|", "v", "o", "l", "u", "m", "e", ">", "\n", "\n">> }

\* What the runner may answer: success with some output, or an error of its
\* own with some text on stderr.
RunnerOutcomes ==
    {[fail |-> FALSE, stdout |-> o, stderr |-> <<>>, errText |-> <<>>] : o \in Stdouts}
    \cup {[fail |-> TRUE, stdout |-> o, stderr |-> e,
           errText |-> <<"e", "x", "i", "t", " ", "s", "t", "a", "t", "u", "s", " ", "1">>] :
          o \in {<<>>, <<"o", "n", "\n">>}, e \in Stderrs}

\* Manager.zfs and Manager.zpool: one invocation of the runner; on failure the
\* tool's sentinel combined with the runner's error and the tidied stderr, on
\* success the records of stdout.
\* A variant of zfs that hands the runner's error back as it is.
zfsBareError(args, outcome) ==
    [invoked |-> <<[prog |-> "zfs", args |-> args, failed |-> outcome.fail,
                    errText |-> outcome.errText, stderr |-> outcome.stderr]>>,
     err |-> IF outcome.fail
             THEN [is |-> {"RunnerError"}, msg |-> outcome.errText]
             ELSE NoError,
     records |-> IF outcome.fail THEN <<>> ELSE parseTabular(outcome.stdout)]

zfs(args, outcome) ==
    [invoked |-> <<[prog |-> "zfs", args |-> args, failed |-> outcome.fail,
                    errText |-> outcome.errText, stderr |-> outcome.stderr]>>,
     err |-> IF outcome.fail
             THEN [is |-> {"Err", "ErrZFS", "RunnerError"},
                   msg |-> <<"z", "f", "s", ";", " ">> \o outcome.errText
                           \o <<":", " ">> \o cleanUpStderr(outcome.stderr)]
             ELSE NoError,
     records |-> IF outcome.fail THEN <<>> ELSE parseTabular(outcome.stdout)]

zpool(args, outcome) ==
    [invoked |-> <<[prog |-> "zpool", args |-> args, failed |-> outcome.fail,
                    errText |-> outcome.errText, stderr |-> outcome.stderr]>>,
     err |-> IF outcome.fail
             THEN [is |-> {"Err", "ErrZpool", "RunnerError"},
                   msg |-> <<"z", "p", "o", "o", "l", ";", " ">> \o outcome.errText
                           \o <<":", " ">> \o cleanUpStderr(outcome.stderr)]
             ELSE NoError,
     records |-> IF outcome.fail THEN <<>> ELSE parseTabular(outcome.stdout)]

\* A return before the runner is reached.
Rejected(err) == [invoked |-> <<>>, err |-> err]

\* A variant of validDatasetName that does not look at the last byte.
validDatasetNameLeadingOnly(name) ==
    Len(name) > 0 /\ name[1] # "/"

validDatasetName(name) ==
    Len(name) > 0 /\ name[1] # "/" /\ name[Len(name)] # "/"

validPoolName(name) ==
    Len(name) > 0 /\ \A i \in 1..Len(name) : name[i] # "/"


(***************************************************************************)
(* zfs.go, zpool.go: the Manager operations that encode property maps      *)
(***************************************************************************)

\* Literal arguments.
sCreate == <<"c", "r", "e", "a", "t", "e">>
sSet    == <<"s", "e", "t">>
sImport == <<"i", "m", "p", "o", "r", "t">>
allProperty == <<"a", "l", "l">>

Opt(cond, args) == IF cond THEN args ELSE <<>>

RECURSIVE DirFlags(_)
DirFlags(dirs) ==
    IF dirs = <<>> THEN <<>> ELSE <<<<"-", "d">>, dirs[1]>> \o DirFlags(Tail(dirs))

\* A variant of CreateDataset that passes -u for a volume as well.
CreateDatasetUnmountedVolume(options, order, outcome) ==
    IF options.isNil
    THEN Rejected([is |-> {"Err", "ErrZFS", "ErrInvalidCreateOptions"}])
    ELSE IF ~validDatasetName(options.Name)
    THEN Rejected([is |-> {"Err", "ErrZFS", "ErrInvalidCreateOptions", "ErrInvalidName"}])
    ELSE zfs(<<sCreate>>
             \o Opt(options.CreateParents, <<<<"-", "p">>>>)
             \o Opt(options.Unmounted, <<<<"-", "u">>>>)
             \o (IF options.VolumeSize = <<>> THEN <<>>
                 ELSE Opt(options.BlockSize # <<>>, <<<<"-", "b">>, options.BlockSize>>)
                      \o Opt(options.Sparse, <<<<"-", "s">>>>))
             \o propertyMapFlags(<<"-", "o">>, options.Properties, order)
             \o Opt(options.VolumeSize # <<>>, <<<<"-", "V">>, options.VolumeSize>>)
             \o <<options.Name>>,
             outcome)

CreateDataset(options, order, outcome) ==
    IF options.isNil
    THEN Rejected([is |-> {"Err", "ErrZFS", "ErrInvalidCreateOptions"}])
    ELSE IF ~validDatasetName(options.Name)
    THEN Rejected([is |-> {"Err", "ErrZFS", "ErrInvalidCreateOptions", "ErrInvalidName"}])
    ELSE zfs(<<sCreate>>
             \o Opt(options.CreateParents, <<<<"-", "p">>>>)
             \o (IF options.VolumeSize = <<>>
                 THEN Opt(options.Unmounted, <<<<"-", "u">>>>)
                 ELSE Opt(options.BlockSize # <<>>, <<<<"-", "b">>, options.BlockSize>>)
                      \o Opt(options.Sparse, <<<<"-", "s">>>>))
             \o propertyMapFlags(<<"-", "o">>, options.Properties, order)
             \o Opt(options.VolumeSize # <<>>, <<<<"-", "V">>, options.VolumeSize>>)
             \o <<options.Name>>,
             outcome)

SetPoolProperties(name, properties, order, outcome) ==
    IF ~validPoolName(name) THEN Rejected(errInvalidPoolName)
    ELSE zpool(<<sSet>> \o propertyMapFlags(<<>>, properties, order) \o <<name>>,
               outcome)

SetPoolProperty(name, property, value, outcome) ==
    SetPoolProperties(name, [k \in {property} |-> value], <<property>>, outcome)

CreatePool(options, order, fsOrder, outcome) ==
    IF options.isNil THEN Rejected(errInvalidCreatePoolOptions)
    ELSE IF ~validPoolName(options.Name)
    THEN Rejected([is |-> {"Err", "ErrZpool", "ErrInvalidCreateOptions", "ErrInvalidName"}])
    ELSE IF Len(options.Vdevs) = 0 THEN Rejected(errInvalidCreatePoolOptions)
    ELSE zpool(<<sCreate>>
               \o Opt(options.Mountpoint # <<>>, <<<<"-", "m">>, options.Mountpoint>>)
               \o Opt(options.Root # <<>>, <<<<"-", "R">>, options.Root>>)
               \o Opt(options.Force, <<<<"-", "f">>>>)
               \o Opt(options.DisableFeatures, <<<<"-", "d">>>>)
               \o propertyMapFlags(<<"-", "o">>, options.Properties, order)
               \o propertyMapFlags(<<"-", "O">>, options.FilesystemProperties, fsOrder)
               \o options.Args
               \o <<options.Name>>
               \o options.Vdevs,
               outcome)

\* A nil *ImportPoolOptions stands for the empty options.
ImportPool(options, order, outcome) ==
    IF options.Name # <<>> /\ ~validPoolName(options.Name)
    THEN Rejected(errInvalidPoolName)
    ELSE zpool(<<sImport>>
               \o Opt(options.Force, <<<<"-", "f">>>>)
               \o propertyMapFlags(<<"-", "o">>, options.Properties, order)
               \o DirFlags(options.DirOrDevice)
               \o options.Args
               \o Opt(options.Name # <<>>, <<options.Name>>),
               outcome)

\* DestroyDatasetFlag
DestroyRecursive == 1
DestroyRecursiveClones == 2
DestroyDeferDeletion == 3
DestroyForceUnmount == 4

\* A variant of DestroySwitches that emits a switch for each flag as it comes.
RECURSIVE DestroySwitchesInOrder(_)
DestroySwitchesInOrder(flags) ==
    IF flags = <<>> THEN <<>>
    ELSE Opt(flags[1] = DestroyRecursive, <<<<"-", "r">>>>)
         \o Opt(flags[1] = DestroyRecursiveClones, <<<<"-", "R">>>>)
         \o Opt(flags[1] = DestroyDeferDeletion, <<<<"-", "d">>>>)
         \o Opt(flags[1] = DestroyForceUnmount, <<<<"-", "f">>>>)
         \o DestroySwitchesInOrder(Tail(flags))

\* DestroyDataset: the flags are put in a map, then looked up one by one.
DestroySwitches(flags) ==
    LET fm == {flags[i] : i \in DOMAIN flags}
    IN  Opt(DestroyRecursive \in fm, <<<<"-", "r">>>>)
        \o Opt(DestroyRecursiveClones \in fm, <<<<"-", "R">>>>)
        \o Opt(DestroyDeferDeletion \in fm, <<<<"-", "d">>>>)
        \o Opt(DestroyForceUnmount \in fm, <<<<"-", "f">>>>)


(***************************************************************************)
(* The calls of the encoder and of the Manager operations that use it      *)
(***************************************************************************)

\* The largest number of entries of a generated property map.
MaxProps == 2

PropNames == {<<>>, allProperty, <<"a">>, <<"a", "1">>}
PropValues == {<<"x">>, <<"=", "z">>}

sQuota == <<"q", "u", "o", "t", "a">>
sFeatureAsyncDestroy ==
    <<"f", "e", "a", "t", "u", "r", "e", "@",
      "a", "s", "y", "n", "c", "_", "d", "e", "s", "t", "r", "o", "y">>
s10G == <<"1", "0", "G">>
sDisabled == <<"d", "i", "s", "a", "b", "l", "e", "d">>

\* {quota: 10G, feature@async_destroy: disabled}
ExampleMap ==
    [k \in {sQuota, sFeatureAsyncDestroy} |-> IF k = sQuota THEN s10G ELSE sDisabled]

MapsUpTo(n) ==
    UNION {[ks -> PropValues] : ks \in {x \in SUBSET PropNames : Cardinality(x) <= n}}

PropertyMaps == MapsUpTo(MaxProps) \cup {ExampleMap}

Flags == {<<"-", "o">>, <<"-", "O">>, <<>>}

DatasetNames == {<<>>, <<"/", "t">>, <<"t", "/", "a">>, <<"t", "/", "a", "/">>}
PoolNames == {<<>>, <<"t", "/", "a">>, <<"t">>}

CreateDatasetOptions ==
    [isNil : {FALSE}, Name : DatasetNames, Properties : PropertyMaps,
     CreateParents : BOOLEAN, Unmounted : BOOLEAN,
     VolumeSize : {<<>>, <<"1", "G">>}, BlockSize : {<<>>, <<"4", "K">>},
     Sparse : BOOLEAN]
    \cup
    [isNil : {TRUE}, Name : {<<>>}, Properties : {EmptyMap},
     CreateParents : {FALSE}, Unmounted : {FALSE},
     VolumeSize : {<<>>}, BlockSize : {<<>>}, Sparse : {FALSE}]

CreatePoolOptions ==
    [isNil : {FALSE}, Name : PoolNames, Vdevs : {<<>>, <<<<"d">>>>},
     Properties : PropertyMaps, FilesystemProperties : MapsUpTo(1),
     Mountpoint : {<<>>, <<"/", "m">>}, Root : {<<>>},
     Force : BOOLEAN, DisableFeatures : {FALSE}, Args : {<<>>}]
    \cup
    [isNil : {TRUE}, Name : {<<>>}, Vdevs : {<<>>},
     Properties : {EmptyMap}, FilesystemProperties : {EmptyMap},
     Mountpoint : {<<>>}, Root : {<<>>},
     Force : {FALSE}, DisableFeatures : {FALSE}, Args : {<<>>}]

ImportPoolOptions ==
    [Name : PoolNames, Properties : PropertyMaps, Force : BOOLEAN,
     Args : {<<>>}, DirOrDevice : {<<>>, <<<<"d">>>>}]

ManagerCalls ==
    [op : {"propertyMapFlags"}, flag : Flags, properties : PropertyMaps]
    \cup [op : {"CreateDataset"}, options : CreateDatasetOptions]
    \cup [op : {"SetPoolProperties"}, name : PoolNames, properties : PropertyMaps]
    \cup [op : {"SetPoolProperty"}, name : PoolNames,
          property : PropNames, value : PropValues]
    \cup [op : {"CreatePool"}, options : CreatePoolOptions]
    \cup [op : {"ImportPool"}, options : ImportPoolOptions]

InitManager ==
    /\ call \in ManagerCalls
    /\ store = EmptyMap
    /\ runner = <<>>
    /\ ret = None

\* A Manager operation returns: the runner has received what the operation
\* invoked, and the caller holds the error.
Returns(r) ==
    /\ runner' = runner \o r.invoked
    /\ ret' = [done |-> TRUE, err |-> r.err]
    /\ UNCHANGED <<call, store>>

CallPropertyMapFlags ==
    /\ call.op = "propertyMapFlags" /\ ~ret.done
    /\ \E order \in IterationOrders(call.properties) :
          ret' = [done |-> TRUE,
                  args |-> propertyMapFlags(call.flag, call.properties, order),
                  err  |-> NoError]
    /\ UNCHANGED <<call, store, runner>>

CallCreateDataset ==
    /\ call.op = "CreateDataset" /\ ~ret.done
    /\ \E order \in IterationOrders(call.options.Properties),
          outcome \in RunnerOutcomes :
          Returns(CreateDataset(call.options, order, outcome))

CallSetPoolProperties ==
    /\ call.op = "SetPoolProperties" /\ ~ret.done
    /\ \E order \in IterationOrders(call.properties), outcome \in RunnerOutcomes :
          Returns(SetPoolProperties(call.name, call.properties, order, outcome))

CallSetPoolProperty ==
    /\ call.op = "SetPoolProperty" /\ ~ret.done
    /\ \E outcome \in RunnerOutcomes :
          Returns(SetPoolProperty(call.name, call.property, call.value, outcome))

CallCreatePool ==
    /\ call.op = "CreatePool" /\ ~ret.done
    /\ \E order \in IterationOrders(call.options.Properties),
          fsOrder \in IterationOrders(call.options.FilesystemProperties),
          outcome \in RunnerOutcomes :
          Returns(CreatePool(call.options, order, fsOrder, outcome))

CallImportPool ==
    /\ call.op = "ImportPool" /\ ~ret.done
    /\ \E order \in IterationOrders(call.options.Properties),
          outcome \in RunnerOutcomes :
          Returns(ImportPool(call.options, order, outcome))

NextManager ==
    \/ CallPropertyMapFlags
    \/ CallCreateDataset
    \/ CallSetPoolProperties
    \/ CallSetPoolProperty
    \/ CallCreatePool
    \/ CallImportPool

SpecManager == InitManager /\ [][NextManager]_vars


(***************************************************************************)
(* Claims about the encoder                                                *)
(***************************************************************************)

InvalidPropertyName(k) == k = <<>> \/ k = allProperty
HasInvalidName(m) == \E k \in DOMAIN m : InvalidPropertyName(k)

\* The call reaches the encoder (its other arguments are valid) with a map
\* that holds the empty name or "all".
EncodesInvalidName ==
    \/ call.op = "propertyMapFlags" /\ HasInvalidName(call.properties)
    \/ /\ call.op = "CreateDataset"
       /\ ~call.options.isNil /\ validDatasetName(call.options.Name)
       /\ HasInvalidName(call.options.Properties)
    \/ /\ call.op = "SetPoolProperties"
       /\ validPoolName(call.name) /\ HasInvalidName(call.properties)
    \/ /\ call.op = "SetPoolProperty"
       /\ validPoolName(call.name) /\ InvalidPropertyName(call.property)
    \/ /\ call.op = "CreatePool"
       /\ ~call.options.isNil /\ validPoolName(call.options.Name)
       /\ call.options.Vdevs # <<>>
       /\ \/ HasInvalidName(call.options.Properties)
          \/ HasInvalidName(call.options.FilesystemProperties)
    \/ /\ call.op = "ImportPool"
       /\ (call.options.Name = <<>> \/ validPoolName(call.options.Name))
       /\ HasInvalidName(call.options.Properties)

\* C1: a property map holding the empty name or the reserved name "all" is
\* rejected: the encoder, and CreateDataset, CreatePool, ImportPool,
\* SetPoolProperty and SetPoolProperties given such a map, return an error
\* matching ErrInvalidProperty and the runner is never invoked.
C1_InvalidNameRejected ==
    (ret.done /\ EncodesInvalidName)
        => ("ErrInvalidProperty" \in ret.err.is /\ runner = <<>>)

\* The name=value operands of an argument list of [flag, name=value] pairs.
Operands(args) == [i \in 1..(Len(args) \div 2) |-> args[2 * i]]

Ascending(ss) == \A i, j \in 1..Len(ss) : i < j => StrLess(ss[i], ss[j])

sDashO == <<"-", "o">>

\* C2: propertyMapFlags emits the name=value strings in ascending byte order
\* of the whole name=value string, and the list is the same for every order
\* in which the map may be visited; {quota: 10G, feature@async_destroy:
\* disabled} with flag -o gives [-o, feature@async_destroy=disabled, -o,
\* quota=10G].
C2_SortedByNameValue ==
    (ret.done /\ call.op = "propertyMapFlags") =>
        /\ Ascending(Operands(ret.args))
        /\ \A order \in IterationOrders(call.properties) :
              propertyMapFlags(call.flag, call.properties, order) = ret.args
        /\ (call.properties = ExampleMap /\ call.flag = sDashO) =>
              ret.args = <<sDashO, NameValue(sFeatureAsyncDestroy, sDisabled),
                           sDashO, NameValue(sQuota, s10G)>>

\* A map whose order by name ("a" before "a1") differs from its order by
\* name=value ("a1=x" before "a=x") has been encoded.
C2_Witness ==
    /\ ret.done /\ call.op = "propertyMapFlags"
    /\ DOMAIN call.properties = {<<"a">>, <<"a", "1">>}
    /\ Len(ret.args) = 4
    /\ ret.args[2] = NameValue(<<"a", "1">>, call.properties[<<"a", "1">>])
    /\ ret.args[4] = NameValue(<<"a">>, call.properties[<<"a">>])

MaxRecords == 3

EntityNames == {<<>>, <<"t">>, <<"t", "/", "a">>}
StoreKeys == {<<"p">>, <<"q">>}

\* Records of four fields, and the malformed ones: no field, the single
\* empty field of a blank line, three fields, five fields.
Records ==
    {<<e, k, <<"1">>, <<"-">>>> : e \in EntityNames, k \in StoreKeys}
    \cup {<<e, k, <<"2">>, <<"l">>>> : e \in EntityNames, k \in StoreKeys}
    \cup { <<>>, << <<>> >>,
           << <<"t">>, <<"p">>, <<"1">> >>,
           << <<"t">>, <<"p">>, <<"1">>, <<"-">>, <<"x">> >> }

RecordSeqs == UNION {[1..n -> Records] : n \in 0..MaxRecords}

InitNewProperties ==
    /\ call \in [op : {"newProperties"}, records : RecordSeqs]
    /\ store = EmptyMap
    /\ runner = <<>>
    /\ ret = None

CallNewProperties ==
    /\ call.op = "newProperties" /\ ~ret.done
    /\ ret' = [done |-> TRUE, props |-> newProperties(call.records)]
    /\ UNCHANGED <<call, store, runner>>

NextNewProperties == CallNewProperties

SpecNewProperties == InitNewProperties /\ [][NextNewProperties]_vars

(***************************************************************************)
(* Claims about the property-map builder                                   *)
(***************************************************************************)

WellFormed(record) == Len(record) = 4 /\ record[1] # <<>>

\* The last well-formed record for an entity and a property name.
LastRecord(recs, e, k) ==
    LET is == {i \in 1..Len(recs) :
                  WellFormed(recs[i]) /\ recs[i][1] = e /\ recs[i][2] = k}
    IN  recs[CHOOSE i \in is : \A j \in is : j <= i]

\* C4: newProperties accepts a record iff it has exactly four fields and a
\* non-empty entity name; the other records contribute nothing, and the
\* property of every accepted record is in the result unless a later
\* accepted record of the same entity and property name replaced it.
C4_AcceptsWellFormedOnly ==
    (ret.done /\ call.op = "newProperties") =>
        LET recs == call.records
        IN  /\ \A e \in DOMAIN ret.props : \A k \in DOMAIN ret.props[e] :
                  \E i \in 1..Len(recs) :
                      /\ WellFormed(recs[i])
                      /\ recs[i][1] = e /\ recs[i][2] = k
                      /\ ret.props[e][k] = [Name |-> e, Property |-> k,
                                            Value |-> recs[i][3], Source |-> recs[i][4]]
            /\ \A i \in 1..Len(recs) : WellFormed(recs[i]) =>
                  /\ recs[i][1] \in DOMAIN ret.props
                  /\ recs[i][2] \in DOMAIN ret.props[recs[i][1]]
                  /\ \/ ret.props[recs[i][1]][recs[i][2]].Value = recs[i][3]
                        /\ ret.props[recs[i][1]][recs[i][2]].Source = recs[i][4]
                     \/ \E j \in (i + 1)..Len(recs) :
                           /\ WellFormed(recs[j])
                           /\ recs[j][1] = recs[i][1] /\ recs[j][2] = recs[i][2]
            /\ ret.props = newProperties(SelectSeq(recs, WellFormed))

\* A short record, a record with an empty entity name and a well-formed
\* record have been handed to the builder together.
C4_Witness ==
    /\ ret.done /\ call.op = "newProperties"
    /\ \E i, j, k \in 1..Len(call.records) :
          /\ Len(call.records[i]) < 4
          /\ Len(call.records[j]) = 4 /\ call.records[j][1] = <<>>
          /\ WellFormed(call.records[k])
    /\ Cardinality(DOMAIN ret.props) = 1

\* C5: when two or more accepted records have the same entity and property
\* name, the store holds the Value and Source of the last of them.
C5_LastRecordWins ==
    (ret.done /\ call.op = "newProperties") =>
        \A i, j \in 1..Len(call.records) :
            LET a == call.records[i]
                b == call.records[j]
            IN  (i < j /\ WellFormed(a) /\ WellFormed(b)
                 /\ a[1] = b[1] /\ a[2] = b[2]) =>
                    LET last == LastRecord(call.records, a[1], a[2])
                    IN  /\ ret.props[a[1]][a[2]].Value = last[3]
                        /\ ret.props[a[1]][a[2]].Source = last[4]

\* Two accepted records of one entity and property name, with different
\* values, have been handed to the builder.
C5_Witness ==
    /\ ret.done /\ call.op = "newProperties"
    /\ \E i, j \in 1..Len(call.records) :
          /\ i < j
          /\ WellFormed(call.records[i]) /\ WellFormed(call.records[j])
          /\ call.records[i][1] = call.records[j][1]
          /\ call.records[i][2] = call.records[j][2]
          /\ call.records[i][3] # call.records[j][3]
          /\ ret.props[call.records[j][1]][call.records[j][2]].Value = call.records[j][3]


(***************************************************************************)
(* The calls of the typed accessors                                        *)
(***************************************************************************)

\* The naturals 0 .. MaxNumber are among the numbers sizes are formed of.
MaxNumber == 20

\* Numbers around the widths that matter: the test table's, 2^53 and 2^64.
NamedNumbers ==
    { BigOfNat(42), BigOfNat(84), BigOfNat(239), BigOfNat(383), BigOfNat(483),
      BigOfNat(1023), BigOfNat(1024), BigOfNat(16384),
      BigSub(Two53, <<1>>), Two53, BigAdd(Two53, <<1>>), BigAdd(Two53, <<3>>),
      BigSub(Pow2(54), <<1>>), Pow2(54), Pow2(63),
      BigSub(MaxUint64, BigOfNat(1024)), MaxUint64, Two64 }

Numbers == {BigOfNat(n) : n \in 0..MaxNumber} \cup NamedNumbers

UnitSuffixes == {<<>>, <<"K">>, <<"M">>, <<"G">>, <<"T">>, <<"P">>}

SizeValues == {FormatBig(n) \o u : n \in Numbers, u \in UnitSuffixes}

SentinelValues == {<<>>, <<"-">>}

BoolValues ==
    { <<"o", "n">>, <<"O", "n">>, <<"O", "N">>, <<"o", "N">>,
      <<"e", "n", "a", "b", "l", "e", "d">>,
      <<"E", "n", "a", "b", "l", "e", "d">>,
      <<"E", "N", "A", "B", "L", "E", "D">>,
      <<"e", "N", "a", "b", "l", "e", "d">>, <<"o", "f", "f">>,
      <<"d", "i", "s", "a", "b", "l", "e", "d">>, <<"y", "e", "s">>,
      <<"t", "r", "u", "e">> }

OtherSizeValues ==
    { <<"1", ".", "5", "G">>, <<"2", ".", "5", "0", "M">>,
      <<"4", "2", " ", "K">>, <<" ", "4", "2", "K", " ">>, <<"4", "2", "k">>,
      <<"4", "2", "K", "i", "B">>, <<"4", "2", "K", "B">>, <<"4", "2", "B">>,
      <<"1", "6", "E">>, <<"1", "5", "E">>, <<"4", "2", "X">>,
      <<"4", "2", "K", "K">>, <<"1", ",", "0", "2", "4">>,
      <<"g", "a", "r", "b", "a", "g", "e">>, <<"K">>,
      <<"4", ".", "2", ".", "1">>, <<"-", "1">> }

PercentValues ==
    { <<"9", "%">>, <<"4", "2", "%">>, <<"%">>, <<"9", "%", "%">>,
      <<"1", "0", "0">> }

RatioValues ==
    { <<"0", ".", "0", "1">>, <<"1", ".", "5", "x">>,
      <<"1", ".", "0", "0", "x">>, <<"x">>, <<"1", "e", "3">>,
      <<"-", "2", ".", "5", "x">>, <<"1", ".", "5", "x", "x">>,
      <<"i", "n", "f">>, <<"n", "a", "n">> }

TimeValues ==
    { <<"1", "6", "5", "1", "4", "8", "7", "8", "1", "9">>,
      <<"M", "o", "n", " ", "M", "a", "y", " ", " ", "2", " ", "1", "0", ":", "3", "6", " ", "2", "0", "2", "2">>,
      <<"M", "o", "n", " ", "M", "a", "y", " ", "2", " ", "1", "0", ":", "3", "6", " ", "2", "0", "2", "2">>,
      <<"m", "o", "n", " ", "m", "a", "y", " ", " ", "2", " ", "9", ":", "0", "5", " ", "2", "0", "2", "2">>,
      <<"M", "o", "n", " ", "F", "e", "b", " ", "3", "0", " ", "1", "0", ":", "3", "6", " ", "2", "0", "2", "2">>,
      <<"M", "o", "n", " ", "M", "a", "y", " ", " ", "2", " ", "1", "0", ":", "3", "6", ":", "0", "0", " ", "2", "0", "2", "2">>,
      <<"T", "h", "u", " ", "J", "a", "n", " ", " ", "1", " ", "0", "0", ":", "0", "0", " ", "1", "9", "7", "0">>,
      <<"M", "o", "n", " ", "M", "a", "y", " ", " ", "2", " ", "2", "4", ":", "0", "0", " ", "2", "0", "2", "2">>,
      <<"-", "6", "2", "1", "3", "5", "5", "9", "6", "8", "0", "0">>,
      <<"n", "o", "n", "e">>, <<"/", "m", "n", "t", "/", "x">> }

\* Integers written in other ways than plain digits.
IntegerValues ==
    { <<"0", "0", "7">>, <<"+", "1">>, <<" ", "4", "2">>, <<"1", "_", "0">>,
      <<"0", "x", "1", "0">> }

Values ==
    SentinelValues \cup BoolValues \cup SizeValues \cup OtherSizeValues
    \cup PercentValues \cup RatioValues \cup TimeValues \cup IntegerValues

\* Raw values that only String can read.
UnreadableValues ==
    { <<"g", "a", "r", "b", "a", "g", "e">>, <<"4", ".", "2", ".", "1">>,
      <<"n", "o", "n", "e">> }

\* Raw values of a second property stored next to an unreadable one.
NeighbourValues ==
    { <<"4", "2">>, <<"4", "2", "K">>, <<"9", "%">>, <<"1", ".", "5", "x">>,
      <<"o", "n">>, <<"1", "6", "5", "1", "4", "8", "7", "8", "1", "9">>,
      <<>>, <<"-">>, <<"g", "a", "r", "b", "a", "g", "e">> }

\* The stores accessors are called on: the empty one, one property "p" with
\* each raw value, and an unreadable "p" next to a property "q".
Stores ==
    {EmptyMap}
    \cup {[k \in {<<"p">>} |-> [Name |-> <<"t">>, Property |-> <<"p">>,
                               Value |-> v, Source |-> <<"-">>]] : v \in Values}
    \cup {[k \in {<<"p">>, <<"q">>} |->
              [Name |-> <<"t">>, Property |-> k,
               Value |-> IF k = <<"p">> THEN b ELSE v, Source |-> <<"-">>]] :
           b \in UnreadableValues, v \in NeighbourValues}

Accessors == {"String", "Bool", "Bytes", "Percent", "Ratio", "Time", "Uint64"}

InitAccessors ==
    /\ call \in [op : Accessors, property : StoreKeys]
    /\ store \in Stores
    /\ runner = <<>>
    /\ ret = None

\* An accessor returns its value and the presence flag; the store is read only.
Yields(r) ==
    /\ ret' = [done |-> TRUE, v |-> r.v, ok |-> r.ok]
    /\ UNCHANGED <<call, store, runner>>

CallString  == call.op = "String"  /\ ~ret.done /\ Yields(String(store, call.property))
CallBool    == call.op = "Bool"    /\ ~ret.done /\ Yields(Bool(store, call.property))
CallBytes   == call.op = "Bytes"   /\ ~ret.done /\ Yields(Bytes(store, call.property))
CallPercent == call.op = "Percent" /\ ~ret.done /\ Yields(Percent(store, call.property))
CallRatio   == call.op = "Ratio"   /\ ~ret.done /\ Yields(Ratio(store, call.property))
CallTime    == call.op = "Time"    /\ ~ret.done /\ Yields(Time(store, call.property))
CallUint64  == call.op = "Uint64"  /\ ~ret.done /\ Yields(Uint64(store, call.property))

\* The caller makes another call on the same store.
CallAgain ==
    /\ call.op \in Accessors /\ ret.done
    /\ call' \in [op : Accessors, property : StoreKeys]
    /\ ret' = None
    /\ UNCHANGED <<store, runner>>

NextAccessors ==
    \/ CallAgain
    \/ CallString
    \/ CallBool
    \/ CallBytes
    \/ CallPercent
    \/ CallRatio
    \/ CallTime
    \/ CallUint64

SpecAccessors == InitAccessors /\ [][NextAccessors]_vars

(***************************************************************************)
(* Claims about the typed accessors                                        *)
(***************************************************************************)

\* The zero value of the type an accessor returns.
ZeroOf(op) ==
    CASE op = "Bool" -> FALSE
      [] op = "Ratio" -> FloatZero
      [] op = "Time" -> ZeroTime
      [] OTHER -> <<>>

Returned == ret.done /\ call.op \in Accessors

Absent == call.property \notin DOMAIN store

RawValueIs(v) == call.property \in DOMAIN store /\ store[call.property].Value = v

sDash == <<"-">>

\* C6: each of String, Bool, Bytes, Percent, Ratio, Time and Uint64, asked for
\* a key that is absent from the store or whose raw value is exactly "-",
\* returns the zero value of its type with presence false.
C6_AbsentOrDashIsZero ==
    (Returned /\ (Absent \/ RawValueIs(sDash)))
        => (ret.v = ZeroOf(call.op) /\ ret.ok = FALSE)

\* Bool was asked for a property whose raw value is "-" and has returned.
C6_Witness ==
    /\ Returned
    /\ call.op = "Bool"
    /\ RawValueIs(sDash)
    /\ ret.ok = FALSE

\* C7: for a raw value "", String returns ("", true) while Bool, Bytes,
\* Percent, Ratio, Time and Uint64 return their zero value with presence
\* false.
C7_EmptyValue ==
    (Returned /\ RawValueIs(<<>>))
        => IF call.op = "String"
           THEN ret.v = <<>> /\ ret.ok = TRUE
           ELSE ret.v = ZeroOf(call.op) /\ ret.ok = FALSE

\* Uint64 was asked for a property whose raw value is "" and has returned.
C7_Witness ==
    /\ Returned
    /\ call.op = "Uint64"
    /\ RawValueIs(<<>>)
    /\ ret.ok = FALSE

sOn == <<"o", "n">>
sEnabled == <<"e", "n", "a", "b", "l", "e", "d">>

EqualFold(a, b) == ToLower(a) = ToLower(b)

BoolOfPresentValue ==
    /\ Returned
    /\ call.op = "Bool"
    /\ call.property \in DOMAIN store
    /\ store[call.property].Value \notin {<<>>, sDash}

\* C8 as stated: Bool returns (true, true) for every present raw value equal
\* to "on" or "enabled" without regard to letter case, in every mix of upper
\* and lower case, and (false, true) for every other raw value that is neither
\* "" nor "-".
C8_BoolAnyCaseMix ==
    BoolOfPresentValue
        => /\ ret.ok = TRUE
           /\ ret.v = (\/ EqualFold(store[call.property].Value, sOn)
                       \/ EqualFold(store[call.property].Value, sEnabled))

TrueSpellings ==
    { sOn, <<"O", "n">>, <<"O", "N">>, sEnabled,
      <<"E", "n", "a", "b", "l", "e", "d">>,
      <<"E", "N", "A", "B", "L", "E", "D">> }

\* C8 amended: Bool returns (true, true) exactly for the raw values "on",
\* "On", "ON", "enabled", "Enabled" and "ENABLED", and (false, true) for every
\* other raw value that is neither "" nor "-".
C8_BoolSixSpellings ==
    BoolOfPresentValue
        => /\ ret.ok = TRUE
           /\ ret.v = (store[call.property].Value \in TrueSpellings)

\* Bool was asked for "oN", a case mix outside the six spellings, and
\* returned (false, true).
C8_Witness ==
    /\ BoolOfPresentValue
    /\ store[call.property].Value = <<"o", "N">>
    /\ ret.v = FALSE
    /\ ret.ok = TRUE

\* The power of 1024 a single-letter unit stands for.
UnitPower(u) ==
    CASE u = "K" -> 1 [] u = "M" -> 2 [] u = "G" -> 3 [] u = "T" -> 4
      [] u = "P" -> 5

BytesReturned == Returned /\ call.op = "Bytes" /\ call.property \in DOMAIN store

\* C9: for every natural n and unit letter among K, M, G, T, P with power k
\* such that n * 1024^k fits in 64 bits, Bytes of the digits of n followed by
\* the letter returns (n * 1024^k, true).
C9_BinaryUnitExact ==
    BytesReturned =>
        \A n \in Numbers : \A u \in {"K", "M", "G", "T", "P"} :
            (/\ store[call.property].Value = FormatBig(n) \o <<u>>
             /\ BigLeq(BigMulPow(n, 1024, UnitPower(u)), MaxUint64))
                => (ret.ok = TRUE /\ ret.v = BigMulPow(n, 1024, UnitPower(u)))

\* C10: for every raw value that is a plain base-10 natural within 64 bits,
\* Bytes returns exactly that number with presence true.
C10_PlainIntegerExact ==
    BytesReturned =>
        \A n \in Numbers :
            (/\ store[call.property].Value = FormatBig(n)
             /\ BigLeq(n, MaxUint64))
                => (ret.ok = TRUE /\ ret.v = n)

\* The raw value is digits, a point, digits and one of the letters K, M, G, T, P.
IsFractionWithUnit(v) ==
    LET dot == IndexOf(v, {"."})
    IN  /\ Len(v) >= 4
        /\ v[Len(v)] \in {"K", "M", "G", "T", "P"}
        /\ dot > 1 /\ dot < Len(v) - 1
        /\ \A i \in 1..(Len(v) - 1) : i # dot => IsDigit(v[i])

\* The number before the letter times the power of 1024 of the letter, for a
\* value of that form whose product is whole.
FractionTimesUnit(v) ==
    LET dot == IndexOf(v, {"."})
        digits == SubSeq(v, 1, dot - 1) \o SubSeq(v, dot + 1, Len(v) - 1)
    IN  BigDivPow10(BigMulPow(BigOfDigits(digits), 1024, UnitPower(v[Len(v)])),
                    Len(v) - 1 - dot)

\* C28: Bytes applies the power of 1024 to a single-letter unit whether the
\* number before it has a fractional part or not: "1.5G" is 1.5 * 1024^3 and
\* "2.50M" is 2.5 * 1024^2, as "42K" is 42 * 1024.
C28_FractionBinaryUnit ==
    BytesReturned =>
        LET v == store[call.property].Value
        IN  /\ IsFractionWithUnit(v) => (ret.ok /\ ret.v = FractionTimesUnit(v))
            /\ v = <<"4", "2", "K">> => (ret.ok /\ ret.v = BigOfNat(42 * 1024))

\* The raw value is the base-10 text of a natural number.
IsNaturalText(v) == v # <<>> /\ \A i \in 1..Len(v) : v[i] \in
    {"0", "1", "2", "3", "4", "5", "6", "7", "8", "9"}

Uint64Returned == Returned /\ call.op = "Uint64" /\ call.property \in DOMAIN store

\* C11: Uint64 returns (v, true) exactly when the raw value is the base-10
\* text of an integer v with 0 <= v <= 2^64 - 1; for a negative value and for
\* a value of 2^64 or more it returns (0, false), never a wrapped or truncated
\* number.
C11_Uint64InRangeOnly ==
    Uint64Returned =>
        LET v == store[call.property].Value
        IN  IF IsNaturalText(v) /\ BigLeq(BigOfDigits(v), MaxUint64)
            THEN ret.ok = TRUE /\ ret.v = BigOfDigits(v)
            ELSE ret.ok = FALSE /\ ret.v = <<>>

\* Uint64 was asked for 2^64, one more than the largest value, and returned
\* (0, false).
C11_Witness ==
    /\ Uint64Returned
    /\ store[call.property].Value = FormatBig(Two64)
    /\ ret.ok = FALSE
    /\ ret.v = <<>>

sGarbage == <<"g", "a", "r", "b", "a", "g", "e">>

\* Raw values that do not satisfy the parse rule of an accessor.
Unparseable(op) ==
    CASE op = "Bytes" ->
            { sGarbage, <<"K">>, <<"4", ".", "2", ".", "1">>, <<"-", "1">>,
              <<"4", "2", "X">>, <<"4", "2", "K", "K">>, <<"n", "o", "n", "e">> }
      [] op = "Percent" ->
            { sGarbage, <<"%">>, <<"9", "%", "%">>, <<"-", "1">>,
              <<"1", ".", "5", "G">>, <<"n", "o", "n", "e">> }
      [] op = "Ratio" ->
            { sGarbage, <<"x">>, <<"1", ".", "5", "x", "x">>,
              <<"4", ".", "2", ".", "1">>, <<"n", "o", "n", "e">> }
      [] op = "Time" ->
            { sGarbage, <<"n", "o", "n", "e">>, <<"/", "m", "n", "t", "/", "x">>,
              <<"4", ".", "2", ".", "1">>, <<"1", ".", "5", "G">> }
      [] op = "Uint64" ->
            { sGarbage, <<"-", "1">>, <<"4", "2", "K">>, <<"1", ".", "5", "G">>,
              <<"n", "o", "n", "e">>, FormatBig(Two64) }
      [] OTHER -> {}

ParsingAccessors == {"Bytes", "Percent", "Ratio", "Time", "Uint64"}

\* The answer of an accessor on a store.
ResultOf(op, p, property) ==
    CASE op = "String" -> String(p, property)
      [] op = "Bool" -> Bool(p, property)
      [] op = "Bytes" -> Bytes(p, property)
      [] op = "Percent" -> Percent(p, property)
      [] op = "Ratio" -> Ratio(p, property)
      [] op = "Time" -> Time(p, property)
      [] op = "Uint64" -> Uint64(p, property)

\* The store with every property but one taken away.
Only(p, property) == [k \in {property} |-> p[property]]

\* C12: for Bytes, Percent, Ratio, Time and Uint64, a raw value that does not
\* satisfy the parse rule gives the zero value with presence false; the
\* property stays readable through String; and the answer of an accessor for a
\* property is the answer it gives when that property is alone in the store,
\* whatever unparseable property is stored next to it.
C12_UnparseableIsAbsent ==
    (Returned /\ call.property \in DOMAIN store) =>
        LET v == store[call.property].Value
        IN  /\ (call.op \in ParsingAccessors /\ v \in Unparseable(call.op))
                   => (ret.v = ZeroOf(call.op) /\ ret.ok = FALSE)
            /\ (call.op = "String" /\ \E op \in ParsingAccessors : v \in Unparseable(op))
                   => (ret.v = v /\ ret.ok = TRUE)
            /\ [v |-> ret.v, ok |-> ret.ok]
                   = ResultOf(call.op, Only(store, call.property), call.property)

\* Bytes was asked for "p", an unparseable value stored next to a property
\* "q", and returned (0, false).
C12_Witness ==
    /\ Returned
    /\ call.op = "Bytes"
    /\ call.property = <<"p">>
    /\ DOMAIN store = {<<"p">>, <<"q">>}
    /\ store[<<"p">>].Value = sGarbage
    /\ ret.v = <<>>
    /\ ret.ok = FALSE


sEpochForm == <<"1", "6", "5", "1", "4", "8", "7", "8", "1", "9">>

sHumanForm ==
    <<"M", "o", "n", " ", "M", "a", "y", " ", " ", "2", " ", "1", "0", ":",
    "3", "6", " ", "2", "0", "2", "2">>

\* Text that reads as a base-10 integer of 64 bits: an optional sign, then
\* digits, the value in -2^63 .. 2^63 - 1.
IsInt64Text(s) ==
    LET digits == IF s # <<>> /\ s[1] \in {"+", "-"} THEN Tail(s) ELSE s
    IN  /\ digits # <<>>
        /\ \A i \in 1..Len(digits) : IsDigit(digits[i])
        /\ IF s[1] = "-" THEN BigLeq(BigOfDigits(digits), Pow2(63))
           ELSE BigLess(BigOfDigits(digits), Pow2(63))

\* The instant that many seconds from the epoch, in UTC.
EpochInstant(s) ==
    LET digits == IF s[1] \in {"+", "-"} THEN Tail(s) ELSE s
    IN  [neg |-> s[1] = "-" /\ BigOfDigits(digits) # <<>>,
         sec |-> BigOfDigits(digits), loc |-> "UTC"]

\* The seconds from the epoch of the texts written in the layout
\* "Mon Jan _2 15:04 2006" among the raw values, -1 for any other text.
LayoutSeconds(s) ==
    CASE s = sHumanForm -> 1651487760
      [] s = <<"M", "o", "n", " ", "M", "a", "y", " ", "2", " ", "1", "0",
             ":", "3", "6", " ", "2", "0", "2", "2">> -> 1651487760
      [] s = <<"m", "o", "n", " ", "m", "a", "y", " ", " ", "2", " ", "9",
             ":", "0", "5", " ", "2", "0", "2", "2">> -> 1651482300
      [] s = <<"T", "h", "u", " ", "J", "a", "n", " ", " ", "1", " ", "0",
             "0", ":", "0", "0", " ", "1", "9", "7", "0">> -> 0
      [] OTHER -> -1

TimeDecoded ==
    /\ Returned
    /\ call.op = "Time"
    /\ call.property \in DOMAIN store
    /\ store[call.property].Value \notin {<<>>, <<"-">>}

\* C23: Time decodes a present raw value as base-10 integer seconds from the
\* Unix epoch when it reads as one, otherwise as the layout
\* "Mon Jan _2 15:04 2006", and returns the instant in UTC; "1651487819" and
\* "Mon May  2 10:36 2022" give instants in the same minute; a value of
\* neither form gives the zero time and presence false.
C23_TimeTwoForms ==
    TimeDecoded =>
        LET s == TrimSpace(store[call.property].Value)
        IN  /\ IF IsInt64Text(s) THEN ret.ok /\ ret.v = EpochInstant(s)
               ELSE IF LayoutSeconds(s) >= 0
               THEN /\ ret.ok
                    /\ ret.v = [neg |-> FALSE, sec |-> BigOfNat(LayoutSeconds(s)),
                                loc |-> "UTC"]
               ELSE ~ret.ok /\ ret.v = ZeroTime
            /\ s \in {sEpochForm, sHumanForm}
                  => BigDivSmall(ret.v.sec, 60) = BigOfNat(27524796)

\* Time decoded "Mon May  2 10:36 2022" to 1651487760 seconds from the epoch.
C23_Witness ==
    /\ TimeDecoded
    /\ store[call.property].Value = sHumanForm
    /\ ret.ok
    /\ ret.v = [neg |-> FALSE, sec |-> BigOfNat(1651487760), loc |-> "UTC"]

\* Time decoded "1651487819" to that many seconds from the epoch.
TimeDecodedEpochForm ==
    /\ TimeDecoded
    /\ store[call.property].Value = sEpochForm
    /\ ret.ok
    /\ ret.v = [neg |-> FALSE, sec |-> BigOfNat(1651487819), loc |-> "UTC"]


(***************************************************************************)
(* The calls that decode command output and build entities                 *)
(***************************************************************************)

\* The longest buffer handed to parseTabular on its own.
MaxBuf == 4

Buffers == UNION {[1..n -> {"a", "\t", "\n"}] : n \in 0..MaxBuf}

OwnerNames ==
    { <<"t", "/", "a">>, <<"t", "/", "a", "/", "s", "u", "b">>, <<"t">> }

PropertyRecords ==
    [Name : OwnerNames, Property : StoreKeys, Value : {<<"x">>}, Source : {<<"-">>}]

\* Stores as a caller may build them: any owner under any key.
EntityStores == UNION {[ks -> PropertyRecords] : ks \in SUBSET StoreKeys}

\* A store built by a caller in which two keys hold properties of one name
\* for one entity, with different values.
CollidingStores ==
    { [k \in StoreKeys |->
          [Name |-> <<"t", "/", "a">>, Property |-> <<"p">>,
           Value |-> IF k = <<"p">> THEN <<"x">> ELSE <<"y">>, Source |-> <<"-">>]] }

MountpointValues ==
    { sNone, <<"-">>, <<>>, <<"/", "m", "n", "t", "/", "x">>, <<"N", "o", "n", "e">>,
      <<"n", "o", "n", "e", "/", "x">> }

MountpointStores ==
    {EmptyMap}
    \cup {[k \in {sMountpoint} |->
              [Name |-> <<"t", "/", "a">>, Property |-> sMountpoint,
               Value |-> v, Source |-> <<"l", "o", "c", "a", "l">>]] :
           v \in MountpointValues}

PropertyLists == {<<>>, <<<<"p">>>>, <<<<"p">>, <<"q">>>>}

\* The most lines of a stderr text handed to cleanUpStderr on its own.
MaxLines == 3

StderrLineTexts ==
    { <<>>, <<"a">>, <<" ", "b", " ">>, <<"u", "s", "a", "g", "e", ":">>, <<"\t", "c">> }

\* Texts of up to MaxLines lines, with or without a final LF.
StderrTexts ==
    {<<>>} \cup
    {JoinBytes(ls, <<"\n">>) \o end :
        ls \in UNION {[1..n -> StderrLineTexts] : n \in 1..MaxLines},
        end \in {<<>>, <<"\n">>}}

\* The arguments of the listings: a filter or none, a depth or none, a type.
ListFilters == {<<>>, <<"t">>}
ListDepths == {0, 2}
DatasetTypes == {<<"a", "l", "l">>, <<"f", "i", "l", "e", "s", "y", "s", "t", "e", "m">>}

InitEntities ==
    /\ \/ call \in [op : {"parseTabular"}, data : Buffers] /\ store = EmptyMap
       \/ call \in [op : {"cleanUpStderr"}, data : StderrTexts] /\ store = EmptyMap
       \/ call \in [op : {"NewDataset", "newPool"}, name : OwnerNames]
          /\ store \in EntityStores \cup CollidingStores
       \/ call \in [op : {"Mountpoint"}, name : {<<"t", "/", "a">>}]
          /\ store \in MountpointStores
       \/ call \in [op : {"GetDataset"}, name : DatasetNames, properties : PropertyLists]
          /\ store = EmptyMap
       \/ call \in [op : {"GetPool"}, name : PoolNames, properties : PropertyLists]
          /\ store = EmptyMap
       \/ call \in [op : {"ListDatasets"}, filter : ListFilters, depth : ListDepths,
                     typ : DatasetTypes, properties : PropertyLists]
          /\ store = EmptyMap
       \/ call \in [op : {"ListDatasetNames"}, filter : ListFilters, depth : ListDepths,
                     typ : DatasetTypes]
          /\ store = EmptyMap
       \/ call \in [op : {"ListPools"}, properties : PropertyLists]
          /\ store = EmptyMap
       \/ call \in [op : {"ListPoolNames"}]
          /\ store = EmptyMap
    /\ runner = <<>>
    /\ ret = None

\* The nil pointer an operation returns with an error.
Nil == [isNil |-> TRUE]

\* A Manager operation returns a value: the runner has received what the
\* operation invoked and has written stdout, the caller holds value and error.
Answers(r, v, stdout) ==
    /\ runner' = runner \o r.invoked
    /\ ret' = [done |-> TRUE, err |-> r.err, v |-> v, stdout |-> stdout]
    /\ UNCHANGED <<call, store>>

CallParseTabular ==
    /\ call.op = "parseTabular" /\ ~ret.done
    /\ ret' = [done |-> TRUE, records |-> parseTabular(call.data)]
    /\ UNCHANGED <<call, store, runner>>

CallCleanUpStderr ==
    /\ call.op = "cleanUpStderr" /\ ~ret.done
    /\ ret' = [done |-> TRUE, text |-> cleanUpStderr(call.data)]
    /\ UNCHANGED <<call, store, runner>>

CallNewDataset ==
    /\ call.op = "NewDataset" /\ ~ret.done
    /\ \E order \in IterationOrders(store) :
          ret' = [done |-> TRUE, v |-> NewDataset(call.name, store, order)]
    /\ UNCHANGED <<call, store, runner>>

CallNewPool ==
    /\ call.op = "newPool" /\ ~ret.done
    /\ \E order \in IterationOrders(store) :
          ret' = [done |-> TRUE, v |-> newPool(call.name, store, order)]
    /\ UNCHANGED <<call, store, runner>>

\* The caller of NewDataset or newPool goes on to add an entry to the store
\* it gave, or to delete one; an entity that shares that map changes with it.
CallerEditsStore ==
    /\ call.op \in {"NewDataset", "newPool"} /\ ret.done
    /\ \/ \E k \in DOMAIN store :
             store' = [j \in DOMAIN store \ {k} |-> store[j]]
       \/ \E k \in StoreKeys \ DOMAIN store, prop \in PropertyRecords :
             store' = [j \in DOMAIN store \cup {k} |->
                          IF j = k THEN prop ELSE store[j]]
    /\ ret' = IF ret.v.shared THEN [ret EXCEPT !.v.Properties = store'] ELSE ret
    /\ UNCHANGED <<call, runner>>

CallMountpoint ==
    /\ call.op = "Mountpoint" /\ ~ret.done
    /\ Yields(Mountpoint([Name |-> call.name, Properties |-> store]))

\* props[name] of a map[string]Properties: the nil map when the key is missing.
PropertiesOf(props, name) == IF name \in DOMAIN props THEN props[name] ELSE EmptyMap

\* The property list of GetDataset and GetPool: "all" when none is given.
PropertyList(properties) ==
    JoinBytes(IF Len(properties) = 0 THEN <<allProperty>> ELSE properties, <<",">>)

GetDataset ==
    /\ call.op = "GetDataset" /\ ~ret.done
    /\ \E outcome \in RunnerOutcomes :
          LET r == zfs(<<<<"g", "e", "t">>, <<"-", "H", "p">>, <<"-", "o">>,
                         <<"n", "a", "m", "e", ",", "p", "r", "o", "p", "e", "r",
                    "t", "y", ",", "v", "a", "l", "u", "e", ",", "s", "o",
                    "u", "r", "c", "e">>,
                         PropertyList(call.properties), call.name>>, outcome)
              mine == PropertiesOf(newProperties(r.records), call.name)
          IN  IF ~validDatasetName(call.name)
              THEN Answers(Rejected(errInvalidDatasetName), Nil, <<>>)
              ELSE IF r.err # NoError THEN Answers(r, Nil, outcome.stdout)
              ELSE \E order \in IterationOrders(mine) :
                      Answers(r, NewDataset(call.name, mine, order), outcome.stdout)

GetPool ==
    /\ call.op = "GetPool" /\ ~ret.done
    /\ \E outcome \in RunnerOutcomes :
          LET r == zpool(<<<<"g", "e", "t">>, <<"-", "H", "p">>, <<"-", "o">>,
                           <<"n", "a", "m", "e", ",", "p", "r", "o", "p", "e", "r",
                    "t", "y", ",", "v", "a", "l", "u", "e", ",", "s", "o",
                    "u", "r", "c", "e">>,
                           PropertyList(call.properties), call.name>>, outcome)
              mine == PropertiesOf(newProperties(r.records), call.name)
          IN  IF ~validPoolName(call.name)
              THEN Answers(Rejected(errInvalidPoolName), Nil, <<>>)
              ELSE IF r.err # NoError THEN Answers(r, Nil, outcome.stdout)
              ELSE \E order \in IterationOrders(mine) :
                      Answers(r, newPool(call.name, mine, order), outcome.stdout)

\* For every entity of props, an order in which the loop of NewDataset or of
\* newPool visits its properties.
InnerOrders(props) ==
    {f \in [DOMAIN props -> UNION {IterationOrders(props[n]) : n \in DOMAIN props}] :
        \A n \in DOMAIN props : f[n] \in IterationOrders(props[n])}

\* The names in the first column of the records of a name listing.
ListedNames(records) ==
    LET named == SelectSeq(records, LAMBDA record : Len(record) > 0 /\ record[1] # <<>>)
    IN  [i \in 1..Len(named) |-> named[i][1]]

\* -d depth for a positive depth, -r otherwise, then -t and the type.
DepthAndType(depth, typ) ==
    (IF depth > 0 THEN <<<<"-", "d">>, FormatBig(BigOfNat(depth))>> ELSE <<<<"-", "r">>>>)
    \o <<<<"-", "t">>, typ>>

ListDatasets ==
    /\ call.op = "ListDatasets" /\ ~ret.done
    /\ \E outcome \in RunnerOutcomes :
          LET r == zfs(<<<<"g", "e", "t">>, <<"-", "H", "p">>, <<"-", "o">>,
                         <<"n", "a", "m", "e", ",", "p", "r", "o", "p", "e", "r",
                    "t", "y", ",", "v", "a", "l", "u", "e", ",", "s", "o",
                    "u", "r", "c", "e">>>>
                       \o DepthAndType(call.depth, call.typ)
                       \o <<PropertyList(call.properties)>>
                       \o Opt(call.filter # <<>>, <<call.filter>>),
                       outcome)
              props == newProperties(r.records)
          IN  IF r.err # NoError THEN Answers(r, Nil, outcome.stdout)
              ELSE \E order \in IterationOrders(props), inner \in InnerOrders(props) :
                      Answers(r,
                              [i \in 1..Len(order) |->
                                  NewDataset(order[i], props[order[i]], inner[order[i]])],
                              outcome.stdout)

ListDatasetNames ==
    /\ call.op = "ListDatasetNames" /\ ~ret.done
    /\ \E outcome \in RunnerOutcomes :
          LET r == zfs(<<<<"l", "i", "s", "t">>, <<"-", "H">>, <<"-", "o">>,
                         <<"n", "a", "m", "e">>>>
                       \o DepthAndType(call.depth, call.typ)
                       \o Opt(call.filter # <<>>, <<call.filter>>),
                       outcome)
          IN  IF r.err # NoError THEN Answers(r, Nil, outcome.stdout)
              ELSE Answers(r, ListedNames(r.records), outcome.stdout)

ListPools ==
    /\ call.op = "ListPools" /\ ~ret.done
    /\ \E outcome \in RunnerOutcomes :
          LET r == zpool(<<<<"g", "e", "t">>, <<"-", "H", "p">>, <<"-", "o">>,
                           <<"n", "a", "m", "e", ",", "p", "r", "o", "p", "e", "r",
                    "t", "y", ",", "v", "a", "l", "u", "e", ",", "s", "o",
                    "u", "r", "c", "e">>,
                           PropertyList(call.properties)>>, outcome)
              props == newProperties(r.records)
          IN  IF r.err # NoError THEN Answers(r, Nil, outcome.stdout)
              ELSE \E order \in IterationOrders(props), inner \in InnerOrders(props) :
                      Answers(r,
                              [i \in 1..Len(order) |->
                                  newPool(order[i], props[order[i]], inner[order[i]])],
                              outcome.stdout)

ListPoolNames ==
    /\ call.op = "ListPoolNames" /\ ~ret.done
    /\ \E outcome \in RunnerOutcomes :
          LET r == zpool(<<<<"l", "i", "s", "t">>, <<"-", "H", "p">>, <<"-", "o">>,
                           <<"n", "a", "m", "e">>>>, outcome)
          IN  IF r.err # NoError THEN Answers(r, Nil, outcome.stdout)
              ELSE Answers(r, ListedNames(r.records), outcome.stdout)

NextEntities ==
    \/ CallParseTabular
    \/ CallCleanUpStderr
    \/ CallNewDataset
    \/ CallNewPool
    \/ CallerEditsStore
    \/ CallMountpoint
    \/ GetDataset
    \/ GetPool
    \/ ListDatasets
    \/ ListDatasetNames
    \/ ListPools
    \/ ListPoolNames

SpecEntities == InitEntities /\ [][NextEntities]_vars


(***************************************************************************)
(* The calls of the Manager operations on one dataset or pool              *)
(***************************************************************************)

\* The longest list of flags given to DestroyDataset.
MaxFlags == 3

FlagLists == UNION {[1..n -> 0..DestroyForceUnmount] : n \in 0..MaxFlags}

InitCommands ==
    /\ \/ call \in [op : {"GetDatasetProperty"}, name : DatasetNames, property : PropNames]
       \/ call \in [op : {"SetDatasetProperty"}, name : DatasetNames,
                     property : PropNames, value : PropValues]
       \/ call \in [op : {"InheritDatasetProperty"}, name : DatasetNames,
                     property : PropNames, recursive : BOOLEAN]
       \/ call \in [op : {"DestroyDataset"}, name : DatasetNames, flags : FlagLists]
       \/ call \in [op : {"GetPoolProperty"}, name : PoolNames, property : PropNames]
       \/ call \in [op : {"DestroyPool", "ExportPool"}, name : PoolNames, force : BOOLEAN]
    /\ store = EmptyMap
    /\ runner = <<>>
    /\ ret = None

\* What the runner may answer to a query of one value: the outcomes of every
\* command, and success with any short output.
SingleValueOutcomes ==
    RunnerOutcomes
    \cup {[fail |-> FALSE, stdout |-> o, stderr |-> <<>>, errText |-> <<>>] : o \in Buffers}

\* return records[0][0], nil: the first field of the first record, and a
\* run-time panic when there is no first record or it has no field.
AnswersFirstField(r, stdout) ==
    LET outOfRange == r.records = <<>> \/ r.records[1] = <<>>
    IN  /\ runner' = runner \o r.invoked
        /\ ret' = [done |-> TRUE, err |-> r.err,
                   v |-> IF outOfRange THEN <<>> ELSE r.records[1][1],
                   stdout |-> stdout, panic |-> outOfRange]
        /\ UNCHANGED <<call, store>>

GetDatasetProperty ==
    /\ call.op = "GetDatasetProperty" /\ ~ret.done
    /\ \E outcome \in SingleValueOutcomes :
          LET r == zfs(<<<<"g", "e", "t">>, <<"-", "H", "p">>, <<"-", "o">>,
                         <<"v", "a", "l", "u", "e">>, call.property, call.name>>,
                       outcome)
          IN  IF ~validDatasetName(call.name)
              THEN Answers(Rejected(errInvalidDatasetName), <<>>, <<>>)
              ELSE IF call.property = <<>> \/ call.property = allProperty
              THEN Answers(Rejected(errInvalidDatasetProperty), <<>>, <<>>)
              ELSE IF r.err # NoError THEN Answers(r, <<>>, outcome.stdout)
              ELSE AnswersFirstField(r, outcome.stdout)

SetDatasetProperty ==
    /\ call.op = "SetDatasetProperty" /\ ~ret.done
    /\ \E outcome \in RunnerOutcomes :
          IF ~validDatasetName(call.name) THEN Returns(Rejected(errInvalidDatasetName))
          ELSE IF call.property = <<>> \/ call.property = allProperty
          THEN Returns(Rejected(errInvalidDatasetProperty))
          ELSE Returns(zfs(<<sSet, NameValue(call.property, call.value), call.name>>,
                           outcome))

InheritDatasetProperty ==
    /\ call.op = "InheritDatasetProperty" /\ ~ret.done
    /\ \E outcome \in RunnerOutcomes :
          IF ~validDatasetName(call.name) THEN Returns(Rejected(errInvalidDatasetName))
          ELSE IF call.property = <<>> THEN Returns(Rejected(errInvalidDatasetProperty))
          ELSE Returns(zfs(<<<<"i", "n", "h", "e", "r", "i", "t">>>>
                           \o Opt(call.recursive, <<<<"-", "r">>>>)
                           \o <<call.property, call.name>>,
                           outcome))

DestroyDataset ==
    /\ call.op = "DestroyDataset" /\ ~ret.done
    /\ \E outcome \in RunnerOutcomes :
          IF ~validDatasetName(call.name) THEN Returns(Rejected(errInvalidDatasetName))
          ELSE Returns(zfs(<<<<"d", "e", "s", "t", "r", "o", "y">>>>
                           \o DestroySwitches(call.flags) \o <<call.name>>,
                           outcome))

GetPoolProperty ==
    /\ call.op = "GetPoolProperty" /\ ~ret.done
    /\ \E outcome \in SingleValueOutcomes :
          LET r == zpool(<<<<"g", "e", "t">>, <<"-", "H", "p">>, <<"-", "o">>,
                           <<"v", "a", "l", "u", "e">>, call.property, call.name>>,
                         outcome)
          IN  IF ~validPoolName(call.name)
              THEN Answers(Rejected(errInvalidPoolName), <<>>, <<>>)
              ELSE IF call.property = <<>> \/ call.property = allProperty
              THEN Answers(Rejected(errInvalidPoolProperty), <<>>, <<>>)
              ELSE IF r.err # NoError THEN Answers(r, <<>>, outcome.stdout)
              ELSE AnswersFirstField(r, outcome.stdout)

DestroyPool ==
    /\ call.op = "DestroyPool" /\ ~ret.done
    /\ \E outcome \in RunnerOutcomes :
          IF ~validPoolName(call.name) THEN Returns(Rejected(errInvalidPoolName))
          ELSE Returns(zpool(<<<<"d", "e", "s", "t", "r", "o", "y">>>>
                             \o Opt(call.force, <<<<"-", "f">>>>) \o <<call.name>>,
                             outcome))

ExportPool ==
    /\ call.op = "ExportPool" /\ ~ret.done
    /\ \E outcome \in RunnerOutcomes :
          IF ~validPoolName(call.name) THEN Returns(Rejected(errInvalidPoolName))
          ELSE Returns(zpool(<<<<"e", "x", "p", "o", "r", "t">>>>
                             \o Opt(call.force, <<<<"-", "f">>>>) \o <<call.name>>,
                             outcome))

NextCommands ==
    \/ GetDatasetProperty
    \/ SetDatasetProperty
    \/ InheritDatasetProperty
    \/ DestroyDataset
    \/ GetPoolProperty
    \/ DestroyPool
    \/ ExportPool

SpecCommands == InitCommands /\ [][NextCommands]_vars


(***************************************************************************)
(* Claims about decoding and entities                                      *)
(***************************************************************************)

EntityBuilt ==
    /\ ret.done
    /\ \/ call.op \in {"NewDataset", "newPool"}
       \/ call.op \in {"GetDataset", "GetPool"} /\ ret.err = NoError

\* The command output holds no accepted record of the entity asked for.
OutputForOthersOnly ==
    \A i \in DOMAIN parseTabular(ret.stdout) :
        LET record == parseTabular(ret.stdout)[i]
        IN  ~(Len(record) = 4 /\ record[1] = call.name)

\* C13: the Dataset returned by NewDataset and the Pool returned by newPool
\* have the given name and a store in which every Property carries exactly
\* that entity name, also when another entity's name has the given name as a
\* prefix; GetDataset and GetPool given output for other entities only return
\* an entity with an empty store.
C13_OnlyOwnProperties ==
    EntityBuilt =>
        /\ ret.v.Name = call.name
        /\ \A k \in DOMAIN ret.v.Properties : ret.v.Properties[k].Name = call.name
        /\ (call.op \in {"GetDataset", "GetPool"} /\ OutputForOthersOnly)
               => ret.v.Properties = EmptyMap

\* NewDataset was given "t/a" and a store holding a property of "t/a" and one
\* of "t/a/sub", and returned a store with the first only.
C13_Witness ==
    /\ ret.done
    /\ call.op = "NewDataset"
    /\ call.name = <<"t", "/", "a">>
    /\ DOMAIN store = {<<"p">>, <<"q">>}
    /\ store[<<"p">>].Name = <<"t", "/", "a">>
    /\ store[<<"p">>].Property = <<"p">>
    /\ store[<<"q">>].Name = <<"t", "/", "a", "/", "s", "u", "b">>
    /\ store[<<"q">>].Property = <<"q">>
    /\ DOMAIN ret.v.Properties = {<<"p">>}

\* GetDataset("t/a") read output about "t/a/sub" only and returned a dataset
\* with an empty store.
C13_WitnessGet ==
    /\ ret.done
    /\ call.op = "GetDataset"
    /\ call.name = <<"t", "/", "a">>
    /\ ret.err = NoError
    /\ ret.stdout # <<>>
    /\ OutputForOthersOnly
    /\ ret.v.Properties = EmptyMap

MountpointReturned == ret.done /\ call.op = "Mountpoint"

\* C14: Mountpoint returns ("", true) for the raw value "none", ("", false)
\* when the property is absent or its raw value is "-", and (v, true) with v
\* unchanged for every other raw value v, the empty string included.
C14_MountpointNone ==
    MountpointReturned =>
        IF sMountpoint \notin DOMAIN store \/ store[sMountpoint].Value = <<"-">>
        THEN ret.v = <<>> /\ ret.ok = FALSE
        ELSE IF store[sMountpoint].Value = <<"n", "o", "n", "e">>
        THEN ret.v = <<>> /\ ret.ok = TRUE
        ELSE ret.v = store[sMountpoint].Value /\ ret.ok = TRUE

\* Mountpoint was asked of a dataset whose mountpoint is "none" and returned
\* ("", true).
C14_Witness ==
    /\ MountpointReturned
    /\ sMountpoint \in DOMAIN store
    /\ store[sMountpoint].Value = <<"n", "o", "n", "e">>
    /\ ret.v = <<>>
    /\ ret.ok = TRUE

TabularReturned == ret.done /\ call.op = "parseTabular"

\* The fields of each record joined with TAB, the records joined with LF.
Untabulate(records) ==
    JoinBytes([i \in DOMAIN records |-> JoinBytes(records[i], <<"\t">>)], <<"\n">>)

\* C15: parseTabular returns one record per line, that is the number of LF
\* bytes plus one, in line order, each record the line split on TAB: no field
\* holds a TAB or an LF, and joining fields with TAB and records with LF gives
\* the input back; a buffer ending in LF yields a last record of one empty
\* field.
C15_OneRecordPerLine ==
    TabularReturned =>
        /\ Len(ret.records) = Count(call.data, "\n") + 1
        /\ \A i \in DOMAIN ret.records :
              /\ Len(ret.records[i]) >= 1
              /\ \A j \in DOMAIN ret.records[i] :
                    \A k \in DOMAIN ret.records[i][j] :
                        ret.records[i][j][k] \notin {"\t", "\n"}
        /\ Untabulate(ret.records) = call.data
        /\ (call.data # <<>> /\ call.data[Len(call.data)] = "\n")
               => ret.records[Len(ret.records)] = << <<>> >>

\* parseTabular was given two fields and a final LF, and returned the record
\* of the line and the record of the empty last line.
C15_Witness ==
    /\ TabularReturned
    /\ call.data = <<"a", "\t", "a", "\n">>
    /\ ret.records = << <<<<"a">>, <<"a">>>>, << <<>> >> >>


(***************************************************************************)
(* Claims about the Manager operations                                     *)
(***************************************************************************)

DatasetNameOps ==
    { "GetDatasetProperty", "SetDatasetProperty", "InheritDatasetProperty",
      "CreateDataset", "GetDataset", "DestroyDataset" }

PoolNameOps ==
    { "GetPoolProperty", "SetPoolProperties", "CreatePool", "GetPool",
      "DestroyPool", "ExportPool" }

\* The name an operation was given, in its options or as an argument; a nil
\* options value carries none.
CarriesName ==
    call.op \in {"CreateDataset", "CreatePool"} => ~call.options.isNil

NameGiven ==
    IF call.op \in {"CreateDataset", "CreatePool"} THEN call.options.Name ELSE call.name

BadDatasetName(n) == n = <<>> \/ n[1] = "/" \/ n[Len(n)] = "/"

BadPoolName(n) == n = <<>> \/ \E i \in 1..Len(n) : n[i] = "/"

\* C16: every operation taking a dataset name returns an error matching ErrZFS
\* and ErrInvalidName, the runner never invoked, when the name is empty,
\* starts with "/" or ends with "/"; every operation taking a pool name does
\* the same with ErrZpool and ErrInvalidName when the name is empty or
\* contains "/".
C16_NameCheckedFirst ==
    (ret.done /\ call.op \in DatasetNameOps \cup PoolNameOps /\ CarriesName) =>
        /\ (call.op \in DatasetNameOps /\ BadDatasetName(NameGiven))
               => ({"ErrZFS", "ErrInvalidName"} \subseteq ret.err.is /\ runner = <<>>)
        /\ (call.op \in PoolNameOps /\ BadPoolName(NameGiven))
               => ({"ErrZpool", "ErrInvalidName"} \subseteq ret.err.is /\ runner = <<>>)

\* DestroyDataset was given a name ending in "/" and returned the error
\* without a run.
C16_Witness ==
    /\ ret.done
    /\ call.op = "DestroyDataset"
    /\ call.name = <<"t", "/", "a", "/">>
    /\ "ErrInvalidName" \in ret.err.is
    /\ runner = <<>>

NameValues(properties) == {NameValue(k, properties[k]) : k \in DOMAIN properties}

\* C17: for a valid pool name and a map of valid properties, SetPoolProperties
\* invokes the runner once with program zpool and exactly the arguments set,
\* one name=value argument per property in ascending order, pool name; no flag
\* token and no empty argument stands between them.
C17_SetPoolArguments ==
    (/\ ret.done
     /\ call.op = "SetPoolProperties"
     /\ validPoolName(call.name)
     /\ ~HasInvalidName(call.properties)) =>
        /\ Len(runner) = 1
        /\ runner[1].prog = "zpool"
        /\ LET args == runner[1].args
               n == Cardinality(DOMAIN call.properties)
           IN  /\ Len(args) = n + 2
               /\ args[1] = sSet
               /\ args[Len(args)] = call.name
               /\ \A i \in 1..Len(args) : args[i] # <<>>
               /\ {args[i] : i \in 2..(Len(args) - 1)} = NameValues(call.properties)
               /\ Ascending(SubSeq(args, 2, Len(args) - 1))
               /\ call.properties = ExampleMap =>
                     args = <<sSet, NameValue(sFeatureAsyncDestroy, sDisabled),
                              NameValue(sQuota, s10G), call.name>>

\* The switches of the flags present, in the order -r, -R, -d, -f.
SwitchesOf(present) ==
    (IF 1 \in present THEN <<<<"-", "r">>>> ELSE <<>>)
    \o (IF 2 \in present THEN <<<<"-", "R">>>> ELSE <<>>)
    \o (IF 3 \in present THEN <<<<"-", "d">>>> ELSE <<>>)
    \o (IF 4 \in present THEN <<<<"-", "f">>>> ELSE <<>>)

\* C18: for a valid name, the arguments DestroyDataset passes to the runner
\* depend only on which of the four flags are present: destroy, then the
\* switch of each present flag once in the order -r, -R, -d, -f, then the
\* name; other flag values add nothing and no flags gives destroy, name.
C18_FlagsAreASet ==
    (ret.done /\ call.op = "DestroyDataset" /\ ~BadDatasetName(call.name)) =>
        /\ Len(runner) = 1
        /\ runner[1].prog = "zfs"
        /\ runner[1].args = << <<"d", "e", "s", "t", "r", "o", "y">> >>
                             \o SwitchesOf({call.flags[i] : i \in DOMAIN call.flags})
                             \o <<call.name>>

\* DestroyDataset was given the flags force, recursive, force and passed
\* destroy -r -f name.
C18_Witness ==
    /\ ret.done
    /\ call.op = "DestroyDataset"
    /\ call.name = <<"t", "/", "a">>
    /\ call.flags = <<4, 1, 4>>
    /\ Len(runner) = 1
    /\ runner[1].args = << <<"d", "e", "s", "t", "r", "o", "y">>,
                           <<"-", "r">>, <<"-", "f">>, <<"t", "/", "a">> >>

\* The arguments CreateDataset puts before and after the -o pairs.
CreateHead(options) ==
    <<sCreate>>
    \o (IF options.CreateParents THEN <<<<"-", "p">>>> ELSE <<>>)
    \o (IF options.VolumeSize = <<>>
        THEN (IF options.Unmounted THEN <<<<"-", "u">>>> ELSE <<>>)
        ELSE (IF options.BlockSize # <<>>
              THEN <<<<"-", "b">>, options.BlockSize>> ELSE <<>>)
             \o (IF options.Sparse THEN <<<<"-", "s">>>> ELSE <<>>))

CreateTail(options) ==
    (IF options.VolumeSize # <<>> THEN <<<<"-", "V">>, options.VolumeSize>> ELSE <<>>)
    \o <<options.Name>>

ValidCreateDataset ==
    /\ ret.done
    /\ call.op = "CreateDataset"
    /\ ~call.options.isNil
    /\ ~BadDatasetName(call.options.Name)
    /\ ~HasInvalidName(call.options.Properties)

\* C19: for valid options CreateDataset emits -u only when VolumeSize is
\* empty and -b size, -s and -V size only when it is not, in the order create,
\* [-p], [-u | -b size, -s], the -o name=value pairs in ascending order,
\* [-V size], and the dataset name last.
C19_CreateDatasetOrder ==
    ValidCreateDataset =>
        /\ Len(runner) = 1
        /\ runner[1].prog = "zfs"
        /\ LET args == runner[1].args
               options == call.options
               head == CreateHead(options)
               tail == CreateTail(options)
               n == Cardinality(DOMAIN options.Properties)
               pairs == SubSeq(args, Len(head) + 1, Len(args) - Len(tail))
           IN  /\ Len(args) = Len(head) + 2 * n + Len(tail)
               /\ SubSeq(args, 1, Len(head)) = head
               /\ SubSeq(args, Len(args) - Len(tail) + 1, Len(args)) = tail
               /\ \A i \in 1..n : pairs[2 * i - 1] = sDashO
               /\ {pairs[2 * i] : i \in 1..n} = NameValues(options.Properties)
               /\ Ascending(Operands(pairs))
               /\ (\E i \in 1..Len(args) : args[i] = <<"-", "u">>)
                     => options.VolumeSize = <<>>
               /\ (\E i \in 1..Len(args) : args[i] \in {<<"-", "b">>, <<"-", "s">>, <<"-", "V">>})
                     => options.VolumeSize # <<>>

\* A volume was created with every option set: create -p -b 4K -s, two -o
\* pairs, -V 1G, name.
C19_Witness ==
    /\ ValidCreateDataset
    /\ call.options.CreateParents /\ call.options.Unmounted /\ call.options.Sparse
    /\ call.options.VolumeSize # <<>> /\ call.options.BlockSize # <<>>
    /\ Cardinality(DOMAIN call.options.Properties) = 2
    /\ Len(runner) = 1
    /\ Len(runner[1].args) = 12
    /\ runner[1].args[2] = <<"-", "p">>
    /\ runner[1].args[3] = <<"-", "b">>
    /\ runner[1].args[5] = <<"-", "s">>
    /\ runner[1].args[10] = <<"-", "V">>

sDoesNotExist ==
    <<"d", "o", "e", "s", " ", "n", "o", "t", " ", "e", "x", "i", "s", "t">>

sNotFoundPrefix ==
    <<"z", "f", "s", ";", " ", "n", "o", "t", " ", "f", "o", "u", "n", "d",
    ";", " ">>

\* The command failed and its stderr reports that something does not exist.
ReportsNotExisting ==
    /\ ret.done
    /\ call.op \in DatasetNameOps
    /\ runner # <<>>
    /\ "RunnerError" \in ret.err.is
    /\ IndexBytes(ret.err.msg, sDoesNotExist) # 0

\* C20: when the zfs command fails and its stderr reports that the dataset
\* does not exist, the error returned by the dataset operations matches
\* ErrNotFound as well as Err and ErrZFS, and its message starts with
\* "zfs; not found; ".
C20_NotFoundError ==
    ReportsNotExisting =>
        /\ {"Err", "ErrZFS", "ErrNotFound"} \subseteq ret.err.is
        /\ HasPrefix(ret.err.msg, sNotFoundPrefix)


(***************************************************************************)
(* Claims about what the Manager operations return                         *)
(***************************************************************************)

\* The operation has returned after the runner answered with an error.
RunnerFailed == ret.done /\ runner # <<>> /\ runner[Len(runner)].failed

ValueOps ==
    {"GetDatasetProperty", "GetPoolProperty", "GetDataset", "GetPool",
     "ListDatasets", "ListDatasetNames", "ListPools", "ListPoolNames"}

\* The zero value of what the operation returns beside the error.
ZeroResult == IF call.op \in {"GetDatasetProperty", "GetPoolProperty"} THEN <<>> ELSE Nil

ToolText(prog) ==
    IF prog = "zfs" THEN <<"z", "f", "s">> ELSE <<"z", "p", "o", "o", "l">>

sUsage == <<"u", "s", "a", "g", "e", ":">>

\* The lines of a text before its first line that reads "usage:", all of them
\* when it has no such line.
BeforeUsage(lines) ==
    LET at == {i \in 1..Len(lines) : lines[i] = sUsage}
    IN  IF at = {} THEN lines
        ELSE SubSeq(lines, 1, (CHOOSE i \in at : \A j \in at : i <= j) - 1)

\* The non-empty trimmed lines of a text before its usage message, joined
\* with ": ".
Tidied(data) ==
    LET kept == BeforeUsage(Split(data, "\n"))
        trimmed == [k \in 1..Len(kept) |-> TrimSpace(kept[k])]
    IN  JoinBytes(SelectSeq(trimmed, LAMBDA v : v # <<>>), <<":", " ">>)

\* C22: for every stderr text, cleanUpStderr returns the non-empty trimmed
\* lines that precede the "usage:" line, in their order, joined by ": ":
\* nothing of the usage message, no empty line, no surrounding whitespace.
C22_UsageRemoved ==
    (ret.done /\ call.op = "cleanUpStderr") => ret.text = Tidied(call.data)

\* The result is the tidied text for the texts whose "usage:" line is
\* neither the first line nor an unterminated last line: the texts in which
\* "\nusage:\n" occurs whenever a "usage:" line does.
TidiedUnlessUsageAtAnEnd ==
    (/\ ret.done /\ call.op = "cleanUpStderr"
     /\ (ret.text # Tidied(call.data)))
        => LET lines == Split(call.data, "\n")
           IN  \/ lines[1] = sUsage
               \/ /\ lines[Len(lines)] = sUsage
                  /\ \A i \in 1..(Len(lines) - 1) : lines[i] # sUsage


\* The operations that read a store: the typed accessors, the entity getter
\* and the constructors of the entities.
ReadingOps == Accessors \cup {"Mountpoint", "NewDataset", "newPool"}

\* C24: a call of a typed accessor, of an entity getter, of NewDataset or of
\* newPool leaves every Property of the store as it was, also between the
\* calls of a sequence; and when the caller adds to or deletes from the
\* store it gave to NewDataset or newPool, the entity returned keeps its
\* contents.
C24_ReadingNeverWrites ==
    [][ /\ (call.op \in ReadingOps /\ ~ret.done) => store' = store
        /\ (call.op \in Accessors /\ ret.done) => store' = store
        /\ (call.op \in {"NewDataset", "newPool"} /\ ret.done /\ store' # store)
               => ret'.v = ret.v ]_vars

\* newPool returned a pool with a property, and the caller has since emptied
\* the store it had given: the pool still has the property.
C24_Witness ==
    /\ ret.done
    /\ call.op = "newPool"
    /\ store = EmptyMap
    /\ DOMAIN ret.v.Properties = {<<"p">>}


\* A query of one value has returned after the runner succeeded.
SingleValueReturned ==
    /\ ret.done
    /\ call.op \in {"GetDatasetProperty", "GetPoolProperty"}
    /\ runner # <<>>
    /\ ~runner[1].failed

\* C25: when the runner succeeds, GetDatasetProperty and GetPoolProperty
\* return a value and no error for every stdout, never reading past the end
\* of the records: stdout decodes to at least one record and every record
\* has at least one field; the empty stdout gives "".
C25_FirstFieldExists ==
    SingleValueReturned =>
        /\ ~ret.panic
        /\ ret.err = NoError
        /\ parseTabular(ret.stdout) # <<>>
        /\ \A i \in DOMAIN parseTabular(ret.stdout) : parseTabular(ret.stdout)[i] # <<>>
        /\ ret.stdout = <<>> => ret.v = <<>>

\* GetDatasetProperty read an empty stdout and returned "" without an error.
C25_Witness ==
    /\ SingleValueReturned
    /\ call.op = "GetDatasetProperty"
    /\ ret.stdout = <<>>
    /\ ret.v = <<>>
    /\ ~ret.panic


\* ListDatasets or ListPools has returned entities.
ListReturned ==
    /\ ret.done
    /\ call.op \in {"ListDatasets", "ListPools"}
    /\ ret.err = NoError

\* The names of the entities that the accepted records of an output name.
NamesIn(recs) == {recs[i][1] : i \in {j \in 1..Len(recs) : WellFormed(recs[j])}}

\* The property names that the accepted records of an entity name.
PropertiesIn(recs, e) ==
    {recs[i][2] : i \in {j \in 1..Len(recs) : WellFormed(recs[j]) /\ recs[j][1] = e}}

\* C26: ListDatasets and ListPools return one entity for each distinct
\* non-empty entity name of an accepted four-field record of the output and
\* no other: no name twice, no empty name, no empty store; the store of an
\* entity holds, for each property name of its accepted records, the last of
\* those records, and nothing of another entity.
C26_ListNeitherLosesNorLeaks ==
    ListReturned =>
        LET recs == parseTabular(ret.stdout)
        IN  /\ {ret.v[i].Name : i \in 1..Len(ret.v)} = NamesIn(recs)
            /\ Len(ret.v) = Cardinality(NamesIn(recs))
            /\ \A i \in 1..Len(ret.v) :
                  LET e == ret.v[i]
                  IN  /\ e.Name # <<>>
                      /\ e.Properties # EmptyMap
                      /\ DOMAIN e.Properties = PropertiesIn(recs, e.Name)
                      /\ \A k \in DOMAIN e.Properties :
                            LET last == LastRecord(recs, e.Name, k)
                            IN  e.Properties[k] =
                                    [Name |-> e.Name, Property |-> k,
                                     Value |-> last[3], Source |-> last[4]]

\* ListDatasets read records of "t" and "t2", one of "t" twice, one without a
\* name and one of three fields, and returned two datasets, "t" with the
\* later value of p.
C26_Witness ==
    /\ ListReturned
    /\ call.op = "ListDatasets"
    /\ ret.stdout = <<"t", "\t", "p", "\t", "x", "\t", "-", "\n", "\t", "p",
                    "\t", "y", "\t", "-", "\n", "t", "2", "\t", "p", "\t",
                    "z", "\t", "-", "\n", "t", "\t", "p", "\t", "w", "\t",
                    "-", "\n", "t", "\t", "q", "\t", "v", "\n">>
    /\ Len(ret.v) = 2
    /\ \E i \in 1..2 :
          /\ ret.v[i].Name = <<"t">>
          /\ DOMAIN ret.v[i].Properties = {<<"p">>}
          /\ ret.v[i].Properties[<<"p">>].Value = <<"w">>

\* C27: NewDataset and newPool are functions of the name and the store: what
\* a call returns is what every call with the same arguments returns, also
\* for a store in which two keys hold properties with the same Property
\* field and the entity's name.
C27_EntityDeterministic ==
    [][ (call.op \in {"NewDataset", "newPool"} /\ ~ret.done) =>
            \A order \in IterationOrders(store) :
                ret'.v = IF call.op = "NewDataset"
                         THEN NewDataset(call.name, store, order)
                         ELSE newPool(call.name, store, order) ]_vars

\* C30: InheritDatasetProperty, GetDatasetProperty and SetDatasetProperty,
\* given a valid dataset name and the property name "" or "all", return an
\* error matching ErrZFS and ErrInvalidProperty and do not invoke the
\* runner.
C30_SamePropertyCheck ==
    (/\ ret.done
     /\ call.op \in {"GetDatasetProperty", "SetDatasetProperty", "InheritDatasetProperty"}
     /\ ~BadDatasetName(call.name)
     /\ InvalidPropertyName(call.property))
        => /\ {"ErrZFS", "ErrInvalidProperty"} \subseteq ret.err.is
           /\ runner = <<>>

\* The bytes of a buffer before its first LF, all of them when it has none.
FirstLine(data) ==
    LET i == IndexOf(data, {"\n"})
    IN  IF i = 0 THEN data ELSE SubSeq(data, 1, i - 1)

\* C29: when the runner succeeds, GetDatasetProperty and GetPoolProperty
\* return the whole first line of stdout, every byte before the first LF,
\* for every stdout.
C29_WholeFirstLine ==
    SingleValueReturned => ret.v = FirstLine(ret.stdout)


(***************************************************************************)
(* The whole model                                                         *)
(***************************************************************************)

Init ==
    InitManager \/ InitNewProperties \/ InitAccessors \/ InitEntities \/ InitCommands

Next ==
    NextManager \/ NextNewProperties \/ NextAccessors \/ NextEntities \/ NextCommands

Spec == Init /\ [][Next]_vars


====
